---- MODULE Spec2Model ----
(***************************************************************************)
(* Order-status reconciliation engine of src/order_status_handler.py       *)
(* (class OrderStatusHandler): the status state machine, the history log,  *)
(* the pending-update queue, the pending-notification lists and the        *)
(* chat/order mapping cache, with the persistence gateway (db_manager) as  *)
(* an external store that may fail.                                        *)
(***************************************************************************)
EXTENDS Integers, Sequences, FiniteSets, TLC

VARIABLES
    db,                              \* db_manager's orders: order id -> order_status, or Absent
    order_status_history,            \* self._order_status_history
    pending_updates,                 \* self.pending_updates
    pending_system_messages,         \* self._pending_system_messages
    pending_red_reminder_messages,   \* self._pending_red_reminder_messages
    chat_order_map,                  \* self._chat_order_map
    now,                             \* time.time(), in hours
    lock,                            \* self._lock: the thread that holds it, or NoThread
    threads                          \* per thread: the position in its operation and its locals

vars == <<db, order_status_history, pending_updates, pending_system_messages,
          pending_red_reminder_messages, chat_order_map, now, lock, threads>>

(***************************************************************************)
(* Bounds of the model.                                                    *)
(***************************************************************************)
\* updates queued at one time over all ids, and notifications recorded at one
\* time over all pending lists
MaxPending == 1
\* history entries appended for one order in one behaviour
MaxCommits == 2

(***************************************************************************)
(* Program constants.                                                      *)
(***************************************************************************)
\* max_retries of both gateway loops of update_order_status
max_retries == 3
\* the history log keeps the most recent 10 entries of an order
HistoryCap == 10

None == "None"
Absent == "absent"

Accounts == {"acc1"}
OrderIds == {"12345"}
TempId(n) == "temp_" \o ToString(n)
TempIds == {TempId(n) : n \in 1..(2 * MaxPending + 1)}
AllIds == OrderIds \cup TempIds

\* keys of self.status_mapping
status_mapping == {"processing", "pending_ship", "shipped", "completed",
                   "refunding", "refund_cancelled", "cancelled"}

\* a status written by code that predates the handler (not a key of the table)
LegacyStatus == "unknown"

\* the configuration with the pending queue switched off
QueueOff == FALSE
\* the configuration with strict validation switched off
ValidationOff == FALSE

\* ORDER_STATUS_HANDLER_CONFIG
use_pending_queue == TRUE
strict_validation == TRUE

\* VALID_TRANSITIONS with an edge out of cancelled (a closed order refunded)
TransitionsReopenClosed(s) ==
    CASE s = "processing"       -> {"pending_ship", "shipped", "completed", "cancelled"}
      [] s = "pending_ship"     -> {"shipped", "completed", "cancelled", "refunding"}
      [] s = "shipped"          -> {"completed", "cancelled", "refunding"}
      [] s = "completed"        -> {"cancelled", "refunding"}
      [] s = "refunding"        -> {"completed", "cancelled", "refund_cancelled"}
      [] s = "refund_cancelled" -> {}
      [] s = "cancelled"        -> {"refunding"}
      [] OTHER                  -> {}

\* VALID_TRANSITIONS with an edge from cancelled back to processing
TransitionsRestartClosed(s) ==
    CASE s = "processing"       -> {"pending_ship", "shipped", "completed", "cancelled"}
      [] s = "pending_ship"     -> {"shipped", "completed", "cancelled", "refunding"}
      [] s = "shipped"          -> {"completed", "cancelled", "refunding"}
      [] s = "completed"        -> {"cancelled", "refunding"}
      [] s = "refunding"        -> {"completed", "cancelled", "refund_cancelled"}
      [] s = "refund_cancelled" -> {}
      [] s = "cancelled"        -> {"processing"}
      [] OTHER                  -> {}

\* VALID_TRANSITIONS without the edge from refunding to refund_cancelled
TransitionsNoWithdrawal(s) ==
    CASE s = "processing"       -> {"pending_ship", "shipped", "completed", "cancelled"}
      [] s = "pending_ship"     -> {"shipped", "completed", "cancelled", "refunding"}
      [] s = "shipped"          -> {"completed", "cancelled", "refunding"}
      [] s = "completed"        -> {"cancelled", "refunding"}
      [] s = "refunding"        -> {"completed", "cancelled"}
      [] s = "refund_cancelled" -> {}
      [] s = "cancelled"        -> {}
      [] OTHER                  -> {}

VALID_TRANSITIONS(s) ==
    CASE s = "processing"       -> {"pending_ship", "shipped", "completed", "cancelled"}
      [] s = "pending_ship"     -> {"shipped", "completed", "cancelled", "refunding"}
      [] s = "shipped"          -> {"completed", "cancelled", "refunding"}
      [] s = "completed"        -> {"cancelled", "refunding"}
      [] s = "refunding"        -> {"completed", "cancelled", "refund_cancelled"}
      [] s = "refund_cancelled" -> {}
      [] s = "cancelled"        -> {}
      [] OTHER                  -> {}

\* the keys of VALID_TRANSITIONS with the legacy status among them
KeysWithLegacy == {"processing", "pending_ship", "shipped", "completed",
                   "refunding", "refund_cancelled", "cancelled", "unknown"}

TransitionKeys == {"processing", "pending_ship", "shipped", "completed",
                   "refunding", "refund_cancelled", "cancelled"}

\* _is_valid_status_transition without its last step, the lookup in the table
SpecialRuleOnly(current_status, new_status) ==
    IF current_status \notin {"processing", "pending_ship", "shipped", "completed",
                              "refunding", "refund_cancelled", "cancelled"}
    THEN TRUE
    ELSE ~(new_status = "processing"
           /\ current_status \in {"pending_ship", "shipped", "completed", "refunding",
                                   "refund_cancelled"})

_is_valid_status_transition(current_status, new_status) ==
    IF current_status \notin TransitionKeys THEN TRUE
    ELSE IF new_status = "processing"
            /\ current_status \in {"pending_ship", "shipped", "completed",
                                   "refunding", "refund_cancelled"}
         THEN FALSE
    ELSE new_status \in VALID_TRANSITIONS(current_status)

(***************************************************************************)
(* Texts.  A text is the sequence of its characters, each written as one   *)
(* token (the pinyin of a Chinese character, the character itself for      *)
(* ASCII, "[[" and "]]" for the full-width brackets), so that Python's     *)
(* `in`, ==, strip() and strip(chars) are computed on the characters.      *)
(***************************************************************************)
\* kw in text
Contains(text, kw) ==
    \E i \in 1..(Len(text) - Len(kw) + 1) : SubSeq(text, i, i + Len(kw) - 1) = kw

\* any(keyword in text for keyword in kws)
AnyIn(kws, text) == \E kw \in kws : Contains(text, kw)

RECURSIVE LStrip(_, _)
LStrip(text, chars) ==
    IF text # <<>> /\ text[1] \in chars THEN LStrip(Tail(text), chars) ELSE text

RECURSIVE RStrip(_, _)
RStrip(text, chars) ==
    IF text # <<>> /\ text[Len(text)] \in chars
    THEN RStrip(SubSeq(text, 1, Len(text) - 1), chars)
    ELSE text

\* text.strip(chars)
StripChars(text, chars) == RStrip(LStrip(text, chars), chars)

\* text.strip()
Strip(text) == StripChars(text, {" "})

NoText == <<>>

(***************************************************************************)
(* A notification payload (the `message` dict), by the fields the handler  *)
(* reads:                                                                  *)
(*   button_order_id   orderId= of the card button's targetUrl             *)
(*   main_order_id     order_detail?id= of the card's main targetUrl       *)
(*   dynamic_order_id  order_detail?id= of the dynamicOperation button     *)
(*   scan_order_id     first match of the patterns over str(message)       *)
(*   chat              the raw conversation identifiers of the payload     *)
(*   has_content       message['1']['6']['3']['5'] is a JSON string        *)
(*   tip, title, button  of that JSON (tip.tip, exContent.title,           *)
(*                     exContent.button.text of dynamicOperation)          *)
(*   task_name         taskName of message['1']['10']['bizTag']            *)
(*   detail_notice, reminder_content  of message['10']                     *)
(*   hashable          sorted(message.items()) does not raise              *)
(***************************************************************************)
Payload(oid, chat, has_content, tip, title, button, task_name, hashable) ==
    [button_order_id |-> oid, main_order_id |-> None, dynamic_order_id |-> None,
     scan_order_id |-> None, chat |-> chat, has_content |-> has_content,
     tip |-> tip, title |-> title, button |-> button, task_name |-> task_name,
     detail_notice |-> NoText, reminder_content |-> NoText, hashable |-> hashable]

extract_order_id(message) ==
    IF message.has_content /\ message.button_order_id # None
        THEN message.button_order_id
    ELSE IF message.has_content /\ message.main_order_id # None
        THEN message.main_order_id
    ELSE IF message.has_content /\ message.dynamic_order_id # None
        THEN message.dynamic_order_id
    ELSE message.scan_order_id

_extract_task_name(message) ==
    IF message.task_name = NoText THEN None ELSE message.task_name

\* 退货 / 改为
KwReturn == <<"tui", "huo">>
KwChangedTo == <<"gai", "wei">>

_infer_status_from_task_name(message) ==
    LET raw == _extract_task_name(message)
        task_name == IF raw = None THEN NoText ELSE Strip(raw)
    IN
    IF raw = None \/ task_name = NoText THEN None
    \* 退款申请已同意, without 退货 and 改为
    ELSE IF /\ Contains(task_name, <<"tui", "kuan", "shen", "qing", "yi3", "tong2", "yi4">>)
            /\ ~Contains(task_name, KwReturn) /\ ~Contains(task_name, KwChangedTo)
        THEN "cancelled"
    \* 仅退款已同意, without 退货 and 改为
    ELSE IF /\ Contains(task_name, <<"jin", "tui", "kuan", "yi3", "tong2", "yi4">>)
            /\ ~Contains(task_name, KwReturn) /\ ~Contains(task_name, KwChangedTo)
        THEN "cancelled"
    \* 退款成功 退货成功 退货退款成功 退款退货成功 关闭订单 交易关闭 退款已完成
    \* 交易成功，有退款 交易成功，已退款
    ELSE IF AnyIn({<<"tui", "kuan", "cheng", "gong">>, <<"tui", "huo", "cheng", "gong">>,
                   <<"tui", "huo", "tui", "kuan", "cheng", "gong">>,
                    <<"tui", "kuan", "tui", "huo", "cheng", "gong">>,
                     <<"guan", "bi", "ding", "dan">>, <<"jiao", "yi4e", "guan", "bi">>,
                      <<"tui", "kuan", "yi3", "wan", "cheng">>,
                       <<"jiao", "yi4e", "cheng", "gong", ",", "you", "tui", "kuan">>,
                        <<"jiao", "yi4e", "cheng", "gong", ",", "yi3", "tui", "kuan">>},
                  task_name)
        THEN "cancelled"
    \* 改为仅退款已同意 发起退款申请 申请退款 退款处理中
    ELSE IF AnyIn({<<"gai", "wei", "jin", "tui", "kuan", "yi3", "tong2", "yi4">>,
                   <<"fa", "qi", "tui", "kuan", "shen", "qing">>,
                    <<"shen", "qing", "tui", "kuan">>, <<"tui", "kuan", "chu", "li", "zhong">>},
                  task_name)
        THEN "refunding"
    \* 退款申请已撤销 退款申请已取消 取消退款申请
    ELSE IF AnyIn({<<"tui", "kuan", "shen", "qing", "yi3", "che", "xiao_k">>,
                   <<"tui", "kuan", "shen", "qing", "yi3", "qu", "xiao">>,
                    <<"qu", "xiao", "tui", "kuan", "shen", "qing">>},
                  task_name)
        THEN "refund_cancelled"
    ELSE None

\* 退款申请 / 退货申请
KwRefundRequest == <<"tui", "kuan", "shen", "qing">>
KwReturnRequest == <<"tui", "huo", "shen", "qing">>

_infer_status_from_message(send_message, message) ==
    LET normalized ==
            Strip(StripChars(StripChars(Strip(send_message), {"[", "]"}), {"[[", "]]"}))
    IN
    IF send_message = NoText THEN _infer_status_from_task_name(message)
    \* 退款成功 退货成功 退货退款成功 | 钱款已原路退返 钱款已退回 款项已退回
    \* 交易成功，已退款 交易关闭，已退款
    ELSE IF \/ AnyIn({<<"tui", "kuan", "cheng", "gong">>, <<"tui", "huo", "cheng", "gong">>,
                      <<"tui", "huo", "tui", "kuan", "cheng", "gong">>},
                     normalized)
            \/ AnyIn({<<"qian", "kuan", "yi3", "yuan", "lu", "tui", "fan">>,
                      <<"qian", "kuan", "yi3", "tui", "hui">>,
                       <<"kuan", "xiang", "yi3", "tui", "hui">>,
                        <<"jiao", "yi4e", "cheng", "gong", ",", "yi3", "tui", "kuan">>,
                         <<"jiao", "yi4e", "guan", "bi", ",", "yi3", "tui", "kuan">>},
                     normalized)
        THEN "cancelled"
    \* 已退款 with 交易成功 or 交易关闭
    ELSE IF /\ Contains(normalized, <<"yi3", "tui", "kuan">>)
            /\ AnyIn({<<"jiao", "yi4e", "cheng", "gong">>,
                      <<"jiao", "yi4e", "guan", "bi">>}, normalized)
        THEN "cancelled"
    \* 退款申请/退货申请 with 已同意 同意了 通过了 同意退款 同意退货
    ELSE IF /\ (Contains(normalized, KwRefundRequest) \/ Contains(normalized, KwReturnRequest))
            /\ AnyIn({<<"yi3", "tong2", "yi4">>, <<"tong2", "yi4", "le">>,
                      <<"tong1", "guo", "le">>, <<"tong2", "yi4", "tui", "kuan">>,
                       <<"tong2", "yi4", "tui", "huo">>},
                     normalized)
        THEN "refunding"
    \* 退款申请/退货申请 with 已撤销 撤销了 取消了 已取消
    ELSE IF /\ (Contains(normalized, KwRefundRequest) \/ Contains(normalized, KwReturnRequest))
            /\ AnyIn({<<"yi3", "che", "xiao_k">>, <<"che", "xiao_k", "le">>,
                      <<"qu", "xiao", "le">>, <<"yi3", "qu", "xiao">>},
                     normalized)
        THEN "refund_cancelled"
    \* 买家已付款 付款完成 已付款 等待你发货 待发货
    ELSE IF AnyIn({<<"mai", "jia", "yi3", "fu", "kuan">>, <<"fu", "kuan", "wan", "cheng">>,
                   <<"yi3", "fu", "kuan">>, <<"deng", "dai", "ni", "fa", "huo">>,
                    <<"dai", "fa", "huo">>},
                  normalized)
        THEN "pending_ship"
    \* 你已发货 已发货 等待买家确认收货
    ELSE IF AnyIn({<<"ni", "yi3", "fa", "huo">>, <<"yi3", "fa", "huo">>,
                   <<"deng", "dai", "mai", "jia", "que", "ren", "shou", "huo">>},
                  normalized)
        THEN "shipped"
    \* 确认收货 交易成功
    ELSE IF AnyIn({<<"que", "ren", "shou", "huo">>,
                   <<"jiao", "yi4e", "cheng", "gong">>}, normalized)
        THEN "completed"
    \* 交易关闭 关闭了订单
    ELSE IF AnyIn({<<"jiao", "yi4e", "guan", "bi">>,
                   <<"guan", "bi", "le", "ding", "dan">>}, normalized)
        THEN "cancelled"
    ELSE _infer_status_from_task_name(message)

\* 退款成功 钱款已原路退返 钱款已退回 退款已完成 交易关闭，已退款 交易成功，已退款
\* 交易成功，有退款
KwRefundDone ==
    {<<"tui", "kuan", "cheng", "gong">>, <<"qian", "kuan", "yi3", "yuan", "lu", "tui", "fan">>,
     <<"qian", "kuan", "yi3", "tui", "hui">>, <<"tui", "kuan", "yi3", "wan", "cheng">>,
      <<"jiao", "yi4e", "guan", "bi", ",", "yi3", "tui", "kuan">>,
       <<"jiao", "yi4e", "cheng", "gong", ",", "yi3", "tui", "kuan">>,
        <<"jiao", "yi4e", "cheng", "gong", ",", "you", "tui", "kuan">>}

\* the status of a tip or of a detailNotice/reminderContent text, None when
\* neither rule matches; in_review: the phrases that mean "in review"
RefundTextStatus(text, in_review) ==
    IF AnyIn(KwRefundDone, text) THEN "cancelled"
    ELSE IF /\ (Contains(text, KwRefundRequest) \/ Contains(text, KwReturnRequest))
            /\ AnyIn(in_review, text)
        THEN "refunding"
    ELSE None

\* 已同意 同意 处理中 (tip) / 已同意 处理中 待处理 (detailNotice, reminderContent)
KwTipInReview == {<<"yi3", "tong2", "yi4">>, <<"tong2", "yi4">>, <<"chu", "li", "zhong">>}
KwExtraInReview == {<<"yi3", "tong2", "yi4">>, <<"chu", "li", "zhong">>, <<"dai", "chu", "li">>}

Brackets == {"[", "]", "[[", "]]"}

\* 已同意 / 同意退款
KwAgreed == <<"yi3", "tong2", "yi4">>
KwAgreeRefund == <<"tong2", "yi4", "tui", "kuan">>

CardStatus(message) ==
    \* 我发起了退款申请 + 已撤销
    IF message.title = <<"wo", "fa", "qi", "le", "tui", "kuan", "shen", "qing">>
       /\ message.button = <<"yi3", "che", "xiao_k">>
        THEN "refund_cancelled"
    ELSE IF message.title # NoText /\ Contains(message.title, KwReturn)
            /\ message.button = KwAgreed
        THEN "refunding"
    \* 退款 in the title
    ELSE IF message.title # NoText /\ Contains(message.title, <<"tui", "kuan">>)
            /\ message.button \in {KwAgreed, KwAgreeRefund}
        THEN IF _extract_task_name(message) # None
                /\ AnyIn({KwReturn, <<"tui", "huo", "tui", "kuan">>}, _extract_task_name(message))
             THEN "refunding"
             ELSE "cancelled"
    ELSE None

_check_refund_message(message) ==
    LET normalized_tip == StripChars(Strip(message.tip), Brackets)
        tip_status     == IF message.tip = NoText THEN None
                          ELSE RefundTextStatus(normalized_tip, KwTipInReview)
        extra(text)    == LET n == StripChars(Strip(text), Brackets)
                          IN IF text = NoText \/ n = NoText THEN None
                             ELSE RefundTextStatus(n, KwExtraInReview)
    IN
    IF ~message.has_content THEN None
    ELSE IF tip_status # None THEN tip_status
    ELSE IF CardStatus(message) # None THEN CardStatus(message)
    ELSE IF extra(message.detail_notice) # None THEN extra(message.detail_notice)
    ELSE extra(message.reminder_content)

\* the keys of message_status_mapping
MsgReceivedByBuyer == <<"[", "mai", "jia", "que", "ren", "shou", "huo", ",", "jiao", "yi4e", "cheng", "gong", "]">>
MsgReceivedByYou == <<"[", "ni", "yi3", "que", "ren", "shou", "huo", ",", "jiao", "yi4e", "cheng", "gong", "]">>
MsgShippedBracket == <<"[", "ni", "yi3", "fa", "huo", "]">>
MsgShipped == <<"ni", "yi3", "fa", "huo">>
MsgShippedLong == <<"[", "ni", "yi3", "fa", "huo", ",", "qing", "deng", "dai", "mai", "jia", "que", "ren", "shou", "huo", "]">>
MsgPaidAwaitShip == <<"[", "wo", "yi3", "fu", "kuan", ",", "deng", "dai", "ni", "fa", "huo", "]">>
MsgOrdered == <<"[", "wo", "yi3", "pai", "xia", ",", "dai", "fu", "kuan", "]">>
MsgBuyerPaid == <<"[", "mai", "jia", "yi3", "fu", "kuan", "]">>
MsgPaymentDone == <<"[", "fu", "kuan", "wan", "cheng", "]">>
MsgPaidToShip == <<"[", "yi3", "fu", "kuan", ",", "dai", "fa", "huo", "]">>
MsgRefundOk == <<"[", "tui", "kuan", "cheng", "gong", ",", "qian", "kuan", "yi3", "yuan", "lu", "tui", "fan", "]">>
MsgSellerClosed == <<"[", "ni", "guan", "bi", "le", "ding", "dan", ",", "qian", "kuan", "yi3", "yuan", "lu", "tui", "fan", "]">>

message_status_mapping(send_message) ==
    CASE send_message \in {MsgReceivedByBuyer, MsgReceivedByYou} -> "completed"
      [] send_message \in {MsgShippedBracket, MsgShipped, MsgShippedLong} -> "shipped"
      [] send_message \in {MsgPaidAwaitShip, MsgBuyerPaid, MsgPaymentDone, MsgPaidToShip}
            -> "pending_ship"
      [] send_message = MsgOrdered -> "processing"
      [] send_message \in {MsgRefundOk, MsgSellerClosed} -> "cancelled"
      [] OTHER -> None

\* classify consulting message_status_mapping before _check_refund_message
ClassifyTableFirst(message, send_message) ==
    IF message_status_mapping(send_message) # None
        THEN message_status_mapping(send_message)
    ELSE IF _check_refund_message(message) # None THEN _check_refund_message(message)
    ELSE _infer_status_from_message(send_message, message)

\* the candidate status handle_system_message derives, None: not recognised
classify(message, send_message) ==
    IF _check_refund_message(message) # None THEN _check_refund_message(message)
    ELSE IF message_status_mapping(send_message) # None
        THEN message_status_mapping(send_message)
    ELSE _infer_status_from_message(send_message, message)

\* 交易关闭
RedReminderClosed == <<"jiao", "yi4e", "guan", "bi">>

(***************************************************************************)
(* The handler's memory as one record, threaded through the calls a        *)
(* handler makes: db (the gateway's store), hist, pend, sys, red, cache    *)
(* and calls (the update_order_status calls made so far by the running     *)
(* operation, in order).                                                   *)
(***************************************************************************)
Cur ==
    [db |-> db, hist |-> order_status_history, pend |-> pending_updates,
     sys |-> pending_system_messages, red |-> pending_red_reminder_messages,
     cache |-> chat_order_map, calls |-> <<>>]

\* db_manager.get_order_by_id: the order's status, or Absent (placeholder
\* ids are never orders of the store)
get_order_by_id(S, order_id) ==
    IF order_id \in OrderIds THEN S.db[order_id] ELSE Absent

\* LastN that keeps the whole list
WholeList(seq, n) == seq

LastN(seq, n) ==
    IF Len(seq) <= n THEN seq ELSE SubSeq(seq, Len(seq) - n + 1, Len(seq))

\* _record_status_history that appends nothing
HistoryNotRecorded(hist, from_status, to_status) == hist

\* _record_status_history with the two statuses of the entry exchanged
HistoryExchanged(hist, from_status, to_status) ==
    LastN(Append(hist, [from_status |-> to_status, to_status |-> from_status]), HistoryCap)

_record_status_history(hist, from_status, to_status) ==
    IF to_status # "refund_cancelled"
    THEN LastN(Append(hist, [from_status |-> from_status, to_status |-> to_status]),
               HistoryCap)
    ELSE hist

_get_previous_status(hist) ==
    IF hist = <<>> THEN None ELSE hist[Len(hist)].to_status

_add_to_pending_updates(pend, order_id, new_status, cookie_id, t) ==
    [pend EXCEPT ![order_id] =
        Append(@, [new_status |-> new_status, cookie_id |-> cookie_id, timestamp |-> t])]

(***************************************************************************)
(* One gateway behaviour for one update_order_status call: the number of   *)
(* attempts of get_order_by_id and of insert_or_update_order that raise    *)
(* before one returns (max_retries: all of them), and the value the        *)
(* upsert returns when it returns.  A handler is given a sequence gws of   *)
(* them: its k-th update_order_status call meets gws[k].                   *)
(***************************************************************************)
GwOk == [get_fails |-> 0, put_fails |-> 0, put_ret |-> TRUE]
GatewayOutcomes ==
    { GwOk,
      [get_fails |-> max_retries, put_fails |-> 0, put_ret |-> TRUE],
      [get_fails |-> 2, put_fails |-> max_retries, put_ret |-> TRUE],
      [get_fails |-> 0, put_fails |-> 1, put_ret |-> FALSE] }

Call(order_id, requested, current, outcome, written, ok) ==
    [order_id |-> order_id, requested |-> requested, current |-> current,
     outcome |-> outcome, written |-> written, ok |-> ok]

Done(S, call) == [S EXCEPT !.calls = Append(@, call)]

\* the candidate status passed on as it is
CandidateStatus(hist, current_status, new_status) == new_status

\* the status update_order_status passes to the gateway for (current, new)
ResolvedStatus(hist, current_status, new_status) ==
    IF new_status = "refund_cancelled"
    THEN IF _get_previous_status(hist) # None
         THEN _get_previous_status(hist)
         ELSE current_status
    ELSE new_status

\* a same-status test that never holds
NeverSame(current_status, new_status) == FALSE

\* current_status == new_status: the update repeats the persisted status
SameStatus(current_status, new_status) == current_status = new_status

update_order_status(S, order_id, new_status, cookie_id, gws, t) ==
    LET gw      == gws[Len(S.calls) + 1]
        current == get_order_by_id(S, order_id)
        hist    == IF order_id \in OrderIds THEN S.hist[order_id] ELSE <<>>
        target  == ResolvedStatus(hist, current, new_status)
    IN
    IF new_status \notin status_mapping
    THEN Done(S, Call(order_id, new_status, None, "bad_status", None, FALSE))
    ELSE IF gw.get_fails >= max_retries
    THEN Done(S, Call(order_id, new_status, None, "read_failed", None, FALSE))
    ELSE IF current = Absent
    THEN IF use_pending_queue
         THEN Done([S EXCEPT !.pend = _add_to_pending_updates(S.pend, order_id,
                                                            new_status, cookie_id, t)],
                   Call(order_id, new_status, Absent, "deferred", None, FALSE))
         ELSE Done(S, Call(order_id, new_status, Absent, "dropped", None, FALSE))
    ELSE IF SameStatus(current, new_status)
    THEN Done(S, Call(order_id, new_status, current, "noop", None, TRUE))
    ELSE IF strict_validation /\ ~_is_valid_status_transition(current, new_status)
    THEN Done(S, Call(order_id, new_status, current, "invalid", None, FALSE))
    ELSE IF gw.put_fails >= max_retries
    THEN Done(S, Call(order_id, new_status, current, "write_failed", target, FALSE))
    ELSE IF ~gw.put_ret
    THEN Done(S, Call(order_id, new_status, current, "write_refused", target, FALSE))
    ELSE Done([S EXCEPT !.db[order_id] = target,
                        !.hist[order_id] =
                            _record_status_history(@, current, target)],
              Call(order_id, new_status, current, "committed", target, TRUE))

(***************************************************************************)
(* Draining.  process_pending_updates and on_order_details_fetched pop the *)
(* list of one id and apply its updates in order through                   *)
(* update_order_status; process_all_pending_updates does so for every id   *)
(* queued when it starts.                                                  *)
(***************************************************************************)
\* ApplyUpdates taking the newest update first
RECURSIVE ApplyNewestFirst(_, _, _, _, _)
ApplyNewestFirst(S, order_id, updates, gws, t) ==
    IF updates = <<>> THEN S
    ELSE ApplyNewestFirst(update_order_status(S, order_id, updates[Len(updates)].new_status,
                                              updates[Len(updates)].cookie_id, gws, t),
                          order_id, SubSeq(updates, 1, Len(updates) - 1), gws, t)

RECURSIVE ApplyUpdates(_, _, _, _, _)
ApplyUpdates(S, order_id, updates, gws, t) ==
    IF updates = <<>> THEN S
    ELSE ApplyUpdates(update_order_status(S, order_id, updates[1].new_status,
                                          updates[1].cookie_id, gws, t),
                      order_id, Tail(updates), gws, t)

\* how many of the calls from the k-th on succeeded
CountOk(calls, k) == Cardinality({i \in k..Len(calls) : calls[i].ok})

process_pending_updates(S, order_id, gws, t) ==
    IF S.pend[order_id] = <<>> THEN S
    ELSE ApplyUpdates([S EXCEPT !.pend[order_id] = <<>>], order_id,
                      S.pend[order_id], gws, t)

on_order_details_fetched(S, order_id, gws, t) ==
    IF ~use_pending_queue THEN S
    ELSE IF S.pend[order_id] = <<>> THEN S
    ELSE ApplyUpdates([S EXCEPT !.pend[order_id] = <<>>], order_id,
                      S.pend[order_id], gws, t)

RECURSIVE SeqOfSet(_)
SeqOfSet(set) ==
    IF set = {} THEN <<>>
    ELSE LET x == CHOOSE y \in set : TRUE IN <<x>> \o SeqOfSet(set \ {x})

\* the ids queued in S
QueuedIds(S) == {id \in AllIds : S.pend[id] # <<>>}

\* process_all_pending_updates over the ids of order_ids; the result carries
\* in .n the number of ids with at least one successful update
RECURSIVE ProcessEach(_, _, _, _, _)
ProcessEach(S, order_ids, gws, t, n) ==
    IF order_ids = <<>> THEN [S |-> S, n |-> n]
    ELSE LET k  == Len(S.calls) + 1
             S2 == process_pending_updates(S, order_ids[1], gws, t)
         IN ProcessEach(S2, Tail(order_ids), gws, t,
                        n + IF CountOk(S2.calls, k) > 0 THEN 1 ELSE 0)

process_all_pending_updates(S, gws, t) ==
    ProcessEach(S, SeqOfSet(QueuedIds(S)), gws, t, 0)

\* the updates queued in S, over all ids
QueuedCount(S) ==
    LET ids == SeqOfSet(QueuedIds(S))
        F[i \in 0..Len(ids)] == IF i = 0 THEN 0 ELSE F[i - 1] + Len(S.pend[ids[i]])
    IN F[Len(ids)]

(***************************************************************************)
(* The age sweep.  Times are hours.  max_age_hours is <<>> for Python's    *)
(* None (the configured retention applies) or <<h>> for h hours.  An id or *)
(* an account all of whose entries are expired loses its key, which the    *)
(* model writes as the empty list.                                         *)
(***************************************************************************)
\* ORDER_STATUS_HANDLER_CONFIG['max_pending_age_hours']
max_pending_age_hours == 24

\* ValidEntries keeping the entries that are exactly max_age old as well
EntriesNotOlder(list, max_age, t) ==
    SelectSeq(list, LAMBDA e : t - e.timestamp <= max_age)

\* the entries of a list younger than max_age at time t
ValidEntries(list, max_age, t) ==
    SelectSeq(list, LAMBDA e : t - e.timestamp < max_age)

clear_old_pending_updates(S, max_age_hours, t) ==
    LET max_age == IF max_age_hours = <<>> THEN max_pending_age_hours
                   ELSE max_age_hours[1]
    IN
    IF ~use_pending_queue THEN S
    ELSE [S EXCEPT
            !.pend = [id \in AllIds |-> ValidEntries(S.pend[id], max_age, t)],
            !.sys  = [a \in Accounts |-> ValidEntries(S.sys[a], max_age, t)],
            !.red  = [a \in Accounts |-> ValidEntries(S.red[a], max_age, t)]]

(***************************************************************************)
(* The chat/order mapping cache.  A conversation identifier is a string:   *)
(* [id, sfx] stands for the string of id followed by sfx, where sfx is     *)
(* "", "@" (an @domain suffix) or ".PNM".  The cache of one account is the *)
(* dict self._chat_order_map[cookie_id] in insertion order, each entry     *)
(* [key, order_id, timestamp].                                             *)
(***************************************************************************)
\* hours: 48 * 3600 seconds
_chat_order_map_ttl == 48
_chat_order_map_max_size == 200

Ident(id, sfx) == [id |-> id, sfx |-> sfx]

_normalize_identifier_values(value) ==
    {value} \cup (IF value.sfx \in {"@", ".PNM"} THEN {Ident(value.id, "")} ELSE {})

_extract_chat_identifiers(message) ==
    UNION {_normalize_identifier_values(v) : v \in message.chat}

\* the orders in which a set may be iterated
Orderings(set) ==
    {ids \in [1..Cardinality(set) -> set] : \A i, j \in DOMAIN ids : i # j => ids[i] # ids[j]}

\* an age test that never holds
ExpiredNever(entry, t) == FALSE

Expired(entry, t) == t - entry.timestamp > _chat_order_map_ttl

KeyIndex(mapping, key) ==
    IF \E i \in DOMAIN mapping : mapping[i].key = key
    THEN CHOOSE i \in DOMAIN mapping : mapping[i].key = key
    ELSE 0

\* mapping[key] = entry
SetItem(mapping, entry) ==
    IF KeyIndex(mapping, entry.key) = 0 THEN Append(mapping, entry)
    ELSE [mapping EXCEPT ![KeyIndex(mapping, entry.key)] = entry]

\* mapping without the entries at the indices of drop (keys are unique)
Without(mapping, drop) ==
    LET keys == {mapping[i].key : i \in drop}
        Kept(entry) == entry.key \notin keys
    IN SelectSeq(mapping, Kept)

\* a list without its i-th element
RemoveAt(list, i) == SubSeq(list, 1, i - 1) \o SubSeq(list, i + 1, Len(list))

\* Oldest choosing the entry sorted(mapping, key=timestamp) puts last
Youngest(mapping, among) ==
    CHOOSE i \in among :
        \A j \in among :
            \/ mapping[i].timestamp > mapping[j].timestamp
            \/ (mapping[i].timestamp = mapping[j].timestamp /\ i >= j)

\* the index among those of `among` that sorted(mapping, key=timestamp) puts first
Oldest(mapping, among) ==
    CHOOSE i \in among :
        \A j \in among :
            \/ mapping[i].timestamp < mapping[j].timestamp
            \/ (mapping[i].timestamp = mapping[j].timestamp /\ i <= j)

RECURSIVE OldestFrom(_, _, _)
OldestFrom(mapping, among, n) ==
    IF n = 0 \/ among = {} THEN {}
    ELSE LET i == Oldest(mapping, among)
         IN {i} \cup OldestFrom(mapping, among \ {i}, n - 1)

\* the indices of the first n entries of sorted(mapping, key=timestamp)
OldestIndices(mapping, n) == OldestFrom(mapping, DOMAIN mapping, n)

RECURSIVE SetItems(_, _, _, _)
SetItems(mapping, ids, order_id, t) ==
    IF ids = <<>> THEN mapping
    ELSE SetItems(SetItem(mapping, [key |-> ids[1], order_id |-> order_id, timestamp |-> t]),
                  Tail(ids), order_id, t)

Max(a, b) == IF a >= b THEN a ELSE b

\* the cache of one account after _store_chat_order_mapping; ids: the
\* identifiers of the message in the order the call iterates them
_store_chat_order_mapping(mapping, order_id, ids, t) ==
    LET live     == Without(mapping, {i \in DOMAIN mapping : Expired(mapping[i], t)})
        overflow == Max(0, Len(live) + Len(ids) - _chat_order_map_max_size)
        kept     == IF Len(live) >= _chat_order_map_max_size
                    THEN Without(live, OldestIndices(live, overflow))
                    ELSE live
    IN IF ids = <<>> THEN mapping ELSE SetItems(kept, ids, order_id, t)

\* _lookup_order_id_by_message from the k-th identifier on; expired: the keys
\* found expired so far.  The result: the order id (None: no hit) and the
\* cache the call leaves.
RECURSIVE Lookup(_, _, _, _, _)
Lookup(mapping, ids, k, expired, t) ==
    IF k > Len(ids)
    THEN [order_id |-> None,
          mapping |-> Without(mapping, {i \in DOMAIN mapping : mapping[i].key \in expired})]
    ELSE LET i == KeyIndex(mapping, ids[k]) IN
         IF i = 0 THEN Lookup(mapping, ids, k + 1, expired, t)
         ELSE IF Expired(mapping[i], t)
             THEN Lookup(mapping, ids, k + 1, expired \cup {ids[k]}, t)
         ELSE [order_id |-> mapping[i].order_id, mapping |-> mapping]

_lookup_order_id_by_message(mapping, ids, t) ==
    IF ids = <<>> \/ mapping = <<>> THEN [order_id |-> None, mapping |-> mapping]
    ELSE Lookup(mapping, ids, 1, {}, t)

(***************************************************************************)
(* Notifications.  A handler's result is [S, ret]: the memory it leaves    *)
(* and the value it returns, as a string: "True", "False", "None", or      *)
(* "raised" when the exception leaves the handler.                         *)
(***************************************************************************)
\* on_order_id_extracted called without a message (None, or an empty dict)
NoMessage == [empty |-> TRUE]

\* hash(str(sorted(message.items()))): the items of the payload in key order,
\* as one value (equal payloads have equal hashes; collisions of Python's
\* string hash are left out)
MessageHash(message) ==
    <<message.button, message.button_order_id, message.chat, message.detail_notice,
      message.dynamic_order_id, message.has_content, message.main_order_id,
      message.reminder_content, message.scan_order_id, message.task_name,
      message.tip, message.title>>

PendingMessage(message, new_status, temp_order_id, t) ==
    [new_status |-> new_status, temp_order_id |-> temp_order_id,
     message_hash |-> MessageHash(message), timestamp |-> t]

\* the placeholder ids S refers to
TempsInUse(S) ==
    {id \in TempIds : S.pend[id] # <<>>}
    \cup UNION {{S.sys[a][i].temp_order_id : i \in DOMAIN S.sys[a]} : a \in Accounts}
    \cup UNION {{S.red[a][i].temp_order_id : i \in DOMAIN S.red[a]} : a \in Accounts}

\* temp_<ms>_<uuid8>: an id no queue and no record holds
FreshTemp(S) ==
    TempId(CHOOSE n \in 1..(2 * MaxPending + 1) :
               /\ TempId(n) \notin TempsInUse(S)
               /\ \A m \in 1..(n - 1) : TempId(m) \in TempsInUse(S))

\* the notifications recorded in S, over all accounts and both lists
RecordedCount(S) ==
    LET as == SeqOfSet(Accounts)
        F[i \in 0..Len(as)] ==
            IF i = 0 THEN 0
            ELSE F[i - 1] + Len(S.sys[as[i]]) + Len(S.red[as[i]])
    IN F[Len(as)]

\* the order id is resolved (extracted, or found in the cache), or the update
\* is queued under a fresh placeholder; kind: "sys" or "red"
ResolveAndUpdate(S, message, new_status, cookie_id, ids, gws, t, kind) ==
    LET extracted == extract_order_id(message)
        found     == _lookup_order_id_by_message(S.cache[cookie_id], ids, t)
        order_id  == IF extracted # None THEN extracted ELSE found.order_id
        looked    == IF extracted # None THEN S.cache[cookie_id] ELSE found.mapping
        temp      == FreshTemp(S)
        queued    == [S EXCEPT !.cache[cookie_id] = looked,
                               !.pend = _add_to_pending_updates(@, temp, new_status,
                                                                cookie_id, t)]
        record    == PendingMessage(message, new_status, temp, t)
    IN
    IF order_id # None
    THEN [S |-> update_order_status(
                    [S EXCEPT !.cache[cookie_id] =
                        _store_chat_order_mapping(looked, order_id, ids, t)],
                    order_id, new_status, cookie_id, gws, t),
          ret |-> "True"]
    ELSE IF ~use_pending_queue THEN [S |-> [S EXCEPT !.cache[cookie_id] = looked], ret |-> "False"]
    ELSE IF ~message.hashable THEN [S |-> queued, ret |-> "False"]
    ELSE IF kind = "sys"
        THEN [S |-> [queued EXCEPT !.sys[cookie_id] = Append(@, record)], ret |-> "True"]
        ELSE [S |-> [queued EXCEPT !.red[cookie_id] = Append(@, record)], ret |-> "True"]

\* handle_system_message once the candidate status is derived
HandleClassified(S, message, new_status, cookie_id, ids, gws, t) ==
    IF new_status = None THEN [S |-> S, ret |-> "False"]
    ELSE ResolveAndUpdate(S, message, new_status, cookie_id, ids, gws, t, "sys")

handle_system_message(S, message, send_message, cookie_id, ids, gws, t) ==
    HandleClassified(S, message, classify(message, send_message), cookie_id, ids, gws, t)

\* handle_red_reminder_message that takes every banner for "transaction closed"
RedReminderAny(S, message, red_reminder, cookie_id, ids, gws, t) ==
    ResolveAndUpdate(S, message, "cancelled", cookie_id, ids, gws, t, "red")

handle_red_reminder_message(S, message, red_reminder, cookie_id, ids, gws, t) ==
    IF red_reminder # RedReminderClosed THEN [S |-> S, ret |-> "False"]
    ELSE ResolveAndUpdate(S, message, "cancelled", cookie_id, ids, gws, t, "red")

\* MatchIndex without the hash scan: always the oldest record
OldestIndex(list, message) == 1

\* the index of the record on_order_id_extracted takes from a pending list:
\* the newest with the message's hash, else the oldest
MatchIndex(list, message) ==
    LET hits == IF message = NoMessage THEN {}
                ELSE {i \in DOMAIN list : list[i].message_hash = MessageHash(message)}
    IN IF hits # {} THEN CHOOSE i \in hits : \A j \in hits : j <= i ELSE 1

\* ReplayPending that leaves the placeholder's queue in place
ReplayPendingKeepQueue(S, list, order_id, cookie_id, message, gws, t) ==
    LET i  == MatchIndex(list, message)
        S2 == update_order_status(S, order_id, list[i].new_status, cookie_id, gws, t)
    IN [S |-> S2, rest |-> RemoveAt(list, i)]

\* one pending list of on_order_id_extracted: the matched record is removed,
\* its status applied to order_id, its placeholder's queue deleted
ReplayPending(S, list, order_id, cookie_id, message, gws, t) ==
    LET i    == MatchIndex(list, message)
        S2   == update_order_status(S, order_id, list[i].new_status, cookie_id, gws, t)
    IN [S |-> [S2 EXCEPT !.pend[list[i].temp_order_id] = <<>>],
        rest |-> RemoveAt(list, i)]

\* on_order_id_extracted replaying the lists of the first account that has
\* a pending record, whatever account it is called for
OnOrderIdExtractedAnyAccount(S, order_id, cookie_id, message, ids, gws, t) ==
    LET holders == {a \in DOMAIN S.sys : S.sys[a] # <<>> \/ S.red[a] # <<>>}
        holder  == IF holders = {} THEN cookie_id ELSE CHOOSE a \in holders : TRUE
        R2 == ReplayPending(S, S.sys[holder], order_id, holder, message, gws, t)
        S2 == IF S.sys[holder] = <<>> THEN S
              ELSE [R2.S EXCEPT !.sys[holder] = R2.rest]
        R3 == ReplayPending(S2, S2.red[holder], order_id, holder, message, gws, t)
        S3 == IF S2.red[holder] = <<>> THEN S2
              ELSE [R3.S EXCEPT !.red[holder] = R3.rest]
    IN [S |-> S3, ret |-> "None"]

on_order_id_extracted(S, order_id, cookie_id, message, ids, gws, t) ==
    LET S1 == IF message = NoMessage THEN S
              ELSE [S EXCEPT !.cache[cookie_id] =
                        _store_chat_order_mapping(@, order_id, ids, t)]
        unhashable == message # NoMessage /\ ~message.hashable
        R2 == ReplayPending(S1, S1.sys[cookie_id], order_id, cookie_id, message, gws, t)
        S2 == IF S1.sys[cookie_id] = <<>> THEN S1
              ELSE [R2.S EXCEPT !.sys[cookie_id] = R2.rest]
        R3 == ReplayPending(S2, S2.red[cookie_id], order_id, cookie_id, message, gws, t)
        S3 == IF S2.red[cookie_id] = <<>> THEN S2
              ELSE [R3.S EXCEPT !.red[cookie_id] = R3.rest]
    IN
    IF ~use_pending_queue THEN [S |-> S1, ret |-> "None"]
    ELSE IF unhashable /\ S1.sys[cookie_id] # <<>> THEN [S |-> S1, ret |-> "raised"]
    ELSE IF unhashable /\ S2.red[cookie_id] # <<>> THEN [S |-> S2, ret |-> "raised"]
    ELSE [S |-> S3, ret |-> "None"]

(***************************************************************************)
(* The notifications the model delivers: payloads with the order id in the *)
(* card button, with only a conversation identifier, with neither, and one *)
(* whose items cannot be sorted, carrying texts and cards that are         *)
(* classified shipped, refunding, refund_cancelled or not at all.          *)
(***************************************************************************)
ChatA == Ident(1, "")

\* 退款申请已同意
TextRefundAgreed == <<"tui", "kuan", "shen", "qing", "yi3", "tong2", "yi4">>
\* 你好
TextHello == <<"ni", "hao">>
\* 我发起了退款申请 / 已撤销
TitleRefundInitiated == <<"wo", "fa", "qi", "le", "tui", "kuan", "shen", "qing">>
ButtonWithdrawn == <<"yi3", "che", "xiao_k">>

\* a payload without card texts
Plain(oid, chat, hashable) ==
    Payload(oid, chat, oid # None, NoText, NoText, NoText, NoText, hashable)

\* the "refund request initiated" card with the button "withdrawn"
WithdrawnCard(oid, chat) ==
    Payload(oid, chat, TRUE, NoText, TitleRefundInitiated, ButtonWithdrawn, NoText, TRUE)

Sample(message, send_message) == [message |-> message, send_message |-> send_message]

Samples ==
    UNION {{Sample(Plain(o, {ChatA}, TRUE), MsgShipped),
            Sample(Plain(o, {}, TRUE), TextRefundAgreed),
            Sample(WithdrawnCard(o, {}), NoText)} : o \in OrderIds}
    \cup {Sample(Plain(None, {ChatA}, TRUE), MsgShipped),
          Sample(WithdrawnCard(None, {}), NoText),
          Sample(Plain(None, {}, FALSE), MsgShipped),
          Sample(Plain(None, {}, TRUE), TextHello)}

\* classify over the samples
SampleStatus == [s \in Samples |-> classify(s.message, s.send_message)]

RedSample(message, red_reminder) == [message |-> message, red_reminder |-> red_reminder]

RedSamples ==
    {RedSample(Plain(o, {}, TRUE), RedReminderClosed) : o \in OrderIds}
    \cup {RedSample(Plain(None, {}, TRUE), RedReminderClosed),
          RedSample(Plain(None, {}, TRUE), TextHello)}

\* the messages on_order_id_extracted is called with
HookMessages ==
    {NoMessage, WithdrawnCard(None, {}), Plain(None, {}, FALSE)}
    \cup {Plain(o, {ChatA}, TRUE) : o \in OrderIds}

(***************************************************************************)
(* Threads.  The handler's operations are called from several threads;     *)
(* self._lock is a threading.RLock.  The operations of three threads are   *)
(* followed step by step: "h" runs handle_system_message for a             *)
(* notification without an order id, "s" runs clear_old_pending_updates,   *)
(* "r" runs on_order_id_extracted.  A thread's record holds the statement  *)
(* it is at (pc) and its local variables.  In the other specifications     *)
(* every operation runs alone, from start to end, and the threads stay     *)
(* idle.                                                                   *)
(***************************************************************************)
Threads == {"h", "s", "r"}
NoThread == "none"

\* a thread outside any operation
Idle(t) ==
    CASE t = "h" -> [pc |-> "idle", cookie_id |-> "", new_status |-> "",
                     temp_order_id |-> ""]
      [] t = "s" -> [pc |-> "idle", max_age |-> 0, iterated |-> {},
                     valid_messages |-> [a \in Accounts |-> <<>>]]
      [] t = "r" -> [pc |-> "idle", cookie_id |-> "", order_id |-> "", pending_msg |-> <<>>]

(***************************************************************************)
(* The state machine.                                                      *)
(***************************************************************************)
Bounded(S) ==
    /\ \A o \in OrderIds : Len(S.hist[o]) <= MaxCommits
    /\ QueuedCount(S) <= MaxPending
    /\ RecordedCount(S) <= MaxPending

Gws(n) == [1..n -> GatewayOutcomes]

\* a Python bool as the string the model records
Bool(b) == IF b THEN "True" ELSE "False"

Commit(S) ==
    /\ Bounded(S)
    /\ db' = S.db
    /\ order_status_history' = S.hist
    /\ pending_updates' = S.pend
    /\ pending_system_messages' = S.sys
    /\ pending_red_reminder_messages' = S.red
    /\ chat_order_map' = S.cache
    /\ UNCHANGED <<now, lock, threads>>

\* statuses an order may carry when the main program stores it
InitialStatuses == (status_mapping \ {"refund_cancelled"}) \cup {LegacyStatus}

Init ==
    /\ db = [o \in OrderIds |-> Absent]
    /\ order_status_history = [o \in OrderIds |-> <<>>]
    /\ pending_updates = [id \in AllIds |-> <<>>]
    /\ pending_system_messages = [a \in Accounts |-> <<>>]
    /\ pending_red_reminder_messages = [a \in Accounts |-> <<>>]
    /\ chat_order_map = [a \in Accounts |-> <<>>]
    /\ now = 0
    /\ lock = NoThread
    /\ threads = [t \in Threads |-> Idle(t)]

\* the main program stores an order (outside the handler)
OrderStored ==
    \E o \in OrderIds, s \in InitialStatuses :
        /\ db[o] = Absent
        /\ Commit([Cur EXCEPT !.db[o] = s])

UpdateOrderStatus ==
    \E o \in OrderIds, s \in status_mapping \cup {LegacyStatus}, a \in Accounts,
       gws \in Gws(1) :
        LET S == update_order_status(Cur, o, s, a, gws, now)
        IN Commit(S)

ProcessPendingUpdates ==
    \E id \in AllIds :
        \E gws \in Gws(Len(pending_updates[id])) :
            LET S == process_pending_updates(Cur, id, gws, now)
            IN Commit(S)

ProcessAllPendingUpdates ==
    \E gws \in Gws(QueuedCount(Cur)) :
        LET R == process_all_pending_updates(Cur, gws, now)
        IN Commit(R.S)

OnOrderDetailsFetched ==
    \E o \in OrderIds :
        \E gws \in Gws(Len(pending_updates[o])) :
            LET S == on_order_details_fetched(Cur, o, gws, now)
            IN Commit(S)

HandleSystemMessage ==
    \E s \in Samples, a \in Accounts :
        \E ids \in Orderings(_extract_chat_identifiers(s.message)), gws \in Gws(1) :
            LET R == HandleClassified(Cur, s.message, SampleStatus[s], a, ids, gws, now)
            IN Commit(R.S)

HandleRedReminderMessage ==
    \E s \in RedSamples, a \in Accounts :
        \E ids \in Orderings(_extract_chat_identifiers(s.message)), gws \in Gws(1) :
            LET R == handle_red_reminder_message(Cur, s.message, s.red_reminder, a, ids,
                                                 gws, now)
            IN Commit(R.S)

OnOrderIdExtracted ==
    \E o \in OrderIds, a \in Accounts, m \in HookMessages :
        \E ids \in Orderings(IF m = NoMessage THEN {} ELSE _extract_chat_identifiers(m)),
           gws \in Gws((IF pending_system_messages[a] # <<>> THEN 1 ELSE 0)
                        + (IF pending_red_reminder_messages[a] # <<>> THEN 1 ELSE 0)) :
            LET R == on_order_id_extracted(Cur, o, a, m, ids, gws, now)
            IN Commit(R.S)

Next ==
    \/ OrderStored
    \/ UpdateOrderStatus
    \/ ProcessPendingUpdates
    \/ ProcessAllPendingUpdates
    \/ OnOrderDetailsFetched
    \/ HandleSystemMessage
    \/ HandleRedReminderMessage
    \/ OnOrderIdExtracted

Spec == Init /\ [][Next]_vars

(***************************************************************************)
(* The queue over time: updates are deferred for an order the store does   *)
(* not hold and for notifications without an order id, the queue is        *)
(* drained and swept, and the clock advances.  No order is ever stored.    *)
(***************************************************************************)
\* hours the clock may reach
MaxSweepTime == 40
SweepHours == {10, 15}

ClearOldPendingUpdates ==
    \E max_age_hours \in {<<>>, <<12>>} :
        Commit(clear_old_pending_updates(Cur, max_age_hours, now))

SweepTick ==
    \E d \in SweepHours :
        /\ now + d <= MaxSweepTime
        /\ now' = now + d
        /\ UNCHANGED <<db, order_status_history, pending_updates,
                       pending_system_messages, pending_red_reminder_messages,
                       chat_order_map, lock, threads>>

NextSweep ==
    \/ UpdateOrderStatus
    \/ HandleSystemMessage
    \/ HandleRedReminderMessage
    \/ ProcessPendingUpdates
    \/ ProcessAllPendingUpdates
    \/ ClearOldPendingUpdates
    \/ SweepTick

SpecSweep == Init /\ [][NextSweep]_vars

(***************************************************************************)
(* The operations of the three threads, statement by statement.  A         *)
(* statement inside `with self._lock` is taken by the thread that holds    *)
(* the lock; entering the block waits until no other thread holds it.      *)
(***************************************************************************)
\* the payload thread "h" delivers: no order id, no conversation identifier
LockMessage == Plain(None, {}, TRUE)
LockTexts == {MsgShipped, TextRefundAgreed}

\* the step of thread t that leaves the memory S, the thread's record rec and
\* the lock with holder
Step(S, t, rec, holder) ==
    /\ Bounded(S)
    /\ db' = S.db
    /\ order_status_history' = S.hist
    /\ pending_updates' = S.pend
    /\ pending_system_messages' = S.sys
    /\ pending_red_reminder_messages' = S.red
    /\ chat_order_map' = S.cache
    /\ threads' = [threads EXCEPT ![t] = rec]
    /\ lock' = holder
    /\ UNCHANGED now

\* handle_system_message up to the choice of the placeholder: the text is
\* classified, no order id is extracted, the lookup (which takes the lock)
\* finds nothing
HandleSystemMessageStart ==
    \E a \in Accounts, text \in LockTexts :
        /\ threads["h"].pc = "idle"
        /\ lock = NoThread
        /\ extract_order_id(LockMessage) = None
        /\ _lookup_order_id_by_message(chat_order_map[a], <<>>, now).order_id = None
        /\ Step(Cur, "h",
                [pc |-> "add", cookie_id |-> a,
                 new_status |-> classify(LockMessage, text),
                 temp_order_id |-> FreshTemp(Cur)],
                lock)

\* _add_to_pending_updates: with self._lock
AddToPendingAcquire ==
    /\ threads["h"].pc = "add"
    /\ lock = NoThread
    /\ Step(Cur, "h", [threads["h"] EXCEPT !.pc = "add_locked"], "h")

\* _add_to_pending_updates: the append, and the end of the with block
AddToPendingLocked ==
    LET h == threads["h"]
    IN /\ h.pc = "add_locked"
       /\ Step([Cur EXCEPT !.pend = _add_to_pending_updates(@, h.temp_order_id,
                                                            h.new_status, h.cookie_id,
                                                            now)],
               "h", [h EXCEPT !.pc = "append"], NoThread)

\* handle_system_message: the record is appended to the account's list, and
\* True is returned
AppendPendingMessage ==
    LET h == threads["h"]
    IN /\ h.pc = "append"
       /\ Step([Cur EXCEPT !.sys[h.cookie_id] =
                    Append(@, PendingMessage(LockMessage, h.new_status,
                                             h.temp_order_id, now))],
               "h", Idle("h"), lock)

\* clear_old_pending_updates: max_age_hours is given or configured, then
\* with self._lock
ClearAcquire ==
    \E max_age \in {max_pending_age_hours, 0} :
        /\ threads["s"].pc = "idle"
        /\ use_pending_queue
        /\ lock = NoThread
        /\ Step(Cur, "s", [threads["s"] EXCEPT !.pc = "pend", !.max_age = max_age], "s")

\* clear_old_pending_updates: the loops over self.pending_updates
ClearPendingUpdates ==
    LET s == threads["s"]
    IN /\ s.pc = "pend"
       /\ Step([Cur EXCEPT !.pend = [id \in AllIds |->
                                        ValidEntries(pending_updates[id], s.max_age, now)]],
               "s", [s EXCEPT !.pc = "sys_read"], lock)

\* clear_old_pending_updates: valid_messages is computed from the list of
\* each account that has one
ClearSystemRead ==
    LET s == threads["s"]
    IN /\ s.pc = "sys_read"
       /\ Step(Cur, "s",
               [s EXCEPT !.pc = "sys_write",
                         !.iterated = {a \in Accounts : pending_system_messages[a] # <<>>},
                         !.valid_messages =
                             [a \in Accounts |->
                                 ValidEntries(pending_system_messages[a], s.max_age, now)]],
               lock)

\* clear_old_pending_updates: a non-empty valid_messages replaces the list
ClearSystemWrite ==
    LET s == threads["s"]
    IN /\ s.pc = "sys_write"
       /\ Step([Cur EXCEPT !.sys = [a \in Accounts |->
                    IF a \in s.iterated /\ s.valid_messages[a] # <<>>
                    THEN s.valid_messages[a]
                    ELSE pending_system_messages[a]]],
               "s", [s EXCEPT !.pc = "sys_delete"], lock)

\* clear_old_pending_updates: the accounts in expired_cookies_system lose
\* their list
ClearSystemDelete ==
    LET s == threads["s"]
    IN /\ s.pc = "sys_delete"
       /\ Step([Cur EXCEPT !.sys = [a \in Accounts |->
                    IF a \in s.iterated /\ s.valid_messages[a] = <<>>
                    THEN <<>>
                    ELSE pending_system_messages[a]]],
               "s", [s EXCEPT !.pc = "red"], lock)

\* clear_old_pending_updates: the pending red reminders, and the end of the
\* with block
ClearRedRelease ==
    LET s == threads["s"]
    IN /\ s.pc = "red"
       /\ Step([Cur EXCEPT !.red = [a \in Accounts |->
                    ValidEntries(pending_red_reminder_messages[a], s.max_age, now)]],
               "s", Idle("s"), NoThread)

\* on_order_id_extracted without a message: with self._lock
ExtractedAcquire ==
    \E o \in OrderIds, a \in Accounts :
        /\ threads["r"].pc = "idle"
        /\ lock = NoThread
        /\ Step(Cur, "r", [threads["r"] EXCEPT !.pc = "pop", !.cookie_id = a,
                                               !.order_id = o], "r")

\* on_order_id_extracted: the oldest pending system message is popped
ExtractedPop ==
    LET r == threads["r"]
        list == pending_system_messages[r.cookie_id]
    IN /\ r.pc = "pop"
       /\ IF use_pending_queue /\ list # <<>>
          THEN Step([Cur EXCEPT !.sys[r.cookie_id] = RemoveAt(list, MatchIndex(list, NoMessage))],
                    "r", [r EXCEPT !.pc = "update",
                                   !.pending_msg = <<list[MatchIndex(list, NoMessage)]>>],
                    lock)
          ELSE Step(Cur, "r", [r EXCEPT !.pc = "red"], lock)

\* on_order_id_extracted: the popped status is applied to the order and the
\* placeholder's queue is deleted
ExtractedUpdate ==
    \E gws \in Gws(1) :
        LET r == threads["r"]
            msg == r.pending_msg[1]
            S == update_order_status(Cur, r.order_id, msg.new_status, r.cookie_id, gws, now)
        IN /\ r.pc = "update"
           /\ Step([S EXCEPT !.pend[msg.temp_order_id] = <<>>],
                   "r", [r EXCEPT !.pc = "red", !.pending_msg = <<>>], lock)

\* on_order_id_extracted: the pending red reminders, and the end of the with
\* block
ExtractedRedRelease ==
    \E gws \in Gws(1) :
        LET r == threads["r"]
            list == pending_red_reminder_messages[r.cookie_id]
            R == ReplayPending(Cur, list, r.order_id, r.cookie_id, NoMessage, gws, now)
        IN /\ r.pc = "red"
           /\ IF use_pending_queue /\ list # <<>>
              THEN Step([R.S EXCEPT !.red[r.cookie_id] = R.rest], "r", Idle("r"), NoThread)
              ELSE Step(Cur, "r", Idle("r"), NoThread)

NextLock ==
    \/ OrderStored
    \/ HandleSystemMessageStart
    \/ AddToPendingAcquire
    \/ AddToPendingLocked
    \/ AppendPendingMessage
    \/ ClearAcquire
    \/ ClearPendingUpdates
    \/ ClearSystemRead
    \/ ClearSystemWrite
    \/ ClearSystemDelete
    \/ ClearRedRelease
    \/ ExtractedAcquire
    \/ ExtractedPop
    \/ ExtractedUpdate
    \/ ExtractedRedRelease

SpecLock == Init /\ [][NextLock]_vars

(***************************************************************************)
(* The mapping cache on its own: remember and lookup on caches at and near *)
(* capacity, with time passing.  Everything else keeps its initial value.  *)
(***************************************************************************)
\* hours the clock may reach
MaxTime == 50
TickHours == {24, 25}

\* a cache of n entries remembered at hour 0
Prefilled(n) ==
    [i \in 1..n |-> [key |-> Ident(100 + i, ""), order_id |-> "12345", timestamp |-> 0]]

PrefillSizes == {0, _chat_order_map_max_size - 1, _chat_order_map_max_size}

\* the conversation identifiers of the payloads remembered and looked up:
\* a new one, one with an @domain suffix (two keys), one in every prefilled cache
CacheChats == {{Ident(1, "")}, {Ident(2, "@")}, {Ident(101, "")}}

InitCache ==
    /\ db = [o \in OrderIds |-> Absent]
    /\ order_status_history = [o \in OrderIds |-> <<>>]
    /\ pending_updates = [id \in AllIds |-> <<>>]
    /\ pending_system_messages = [a \in Accounts |-> <<>>]
    /\ pending_red_reminder_messages = [a \in Accounts |-> <<>>]
    /\ chat_order_map \in [Accounts -> {Prefilled(n) : n \in PrefillSizes}]
    /\ now = 0
    /\ lock = NoThread
    /\ threads = [t \in Threads |-> Idle(t)]

NotCache == <<db, order_status_history, pending_updates, pending_system_messages,
              pending_red_reminder_messages, lock, threads>>

StoreChatOrderMapping ==
    \E o \in OrderIds, a \in Accounts, chat \in CacheChats :
        \E ids \in Orderings(_extract_chat_identifiers(Plain(o, chat, TRUE))) :
            /\ chat_order_map' =
                   [chat_order_map EXCEPT ![a] = _store_chat_order_mapping(@, o, ids, now)]
            /\ UNCHANGED <<NotCache, now>>

LookupOrderIdByMessage ==
    \E a \in Accounts, chat \in CacheChats :
        \E ids \in Orderings(_extract_chat_identifiers(Plain(None, chat, TRUE))) :
            /\ chat_order_map' =
                   [chat_order_map EXCEPT
                        ![a] = _lookup_order_id_by_message(@, ids, now).mapping]
            /\ UNCHANGED <<NotCache, now>>

CacheTick ==
    \E d \in TickHours :
        /\ now + d <= MaxTime
        /\ now' = now + d
        /\ UNCHANGED <<NotCache, chat_order_map>>

NextCache ==
    \/ StoreChatOrderMapping
    \/ LookupOrderIdByMessage
    \/ CacheTick

SpecCache == InitCache /\ [][NextCache]_vars

(***************************************************************************)
(* Concurrent updates and drains.  Two worker threads call                 *)
(* update_order_status, process_pending_updates (on_order_details_fetched  *)
(* pops and applies in the same way) and process_all_pending_updates.  A   *)
(* worker's record holds the statement it is at (pc), the ids it drains,   *)
(* the one at work first (order_ids, empty outside a drain), the id it     *)
(* calls update_order_status for (order_id), the updates it has            *)
(* still to apply (updates), and, between the read and the write of one    *)
(* update_order_status call, the status it read (current) and the gateway  *)
(* behaviour the call meets (gw).  The notifications in flight carry       *)
(* different statuses.                                                     *)
(***************************************************************************)
Workers == {"w1", "w2"}

\* a worker outside any operation
Resting ==
    [pc |-> "idle", order_ids |-> <<>>, order_id |-> "", updates |-> <<>>,
     current |-> "", gw |-> GwOk]

\* a lock that every thread may take at any time
LockIgnored(t) == TRUE

\* a lock that is not reentrant: the holder waits like every other thread
LockNotReentrant(t) == lock = NoThread

\* with self._lock, an RLock: free, or held by the thread itself
CanAcquire(t) == lock \in {NoThread, t}

\* a pop that returns the list and leaves it queued
PopLeaves(pend, order_id) == pend

\* self.pending_updates.pop(order_id)
PopUpdates(pend, order_id) == [pend EXCEPT ![order_id] = <<>>]

\* the worker's record when one update_order_status call has returned, or
\* the id at the head of order_ids is found not queued: the next update of
\* the list, else the next id of process_all_pending_updates, else the return
NextUpdate(r) ==
    IF Len(r.updates) > 1
    THEN [r EXCEPT !.pc = "update", !.updates = Tail(@), !.current = "", !.gw = GwOk]
    ELSE IF Len(r.order_ids) > 1
    THEN [Resting EXCEPT !.pc = "drain", !.order_ids = Tail(r.order_ids)]
    ELSE Resting

InitWorkers ==
    /\ db = [o \in OrderIds |-> Absent]
    /\ order_status_history = [o \in OrderIds |-> <<>>]
    /\ pending_updates = [id \in AllIds |-> <<>>]
    /\ pending_system_messages = [a \in Accounts |-> <<>>]
    /\ pending_red_reminder_messages = [a \in Accounts |-> <<>>]
    /\ chat_order_map = [a \in Accounts |-> <<>>]
    /\ now = 0
    /\ lock = NoThread
    /\ threads = [w \in Workers |-> Resting]

\* a notification's update_order_status call starts, for a status that no
\* update queued or held by a worker carries
CallUpdateOrderStatus ==
    \E w \in Workers, o \in OrderIds, s \in status_mapping, a \in Accounts :
        /\ threads[w].pc = "idle"
        /\ \A id \in AllIds : \A i \in DOMAIN pending_updates[id] :
              pending_updates[id][i].new_status # s
        /\ \A v \in Workers : \A i \in DOMAIN threads[v].updates :
              threads[v].updates[i].new_status # s
        /\ Step(Cur, w,
                [Resting EXCEPT !.pc = "update", !.order_id = o,
                                !.updates = <<[new_status |-> s, cookie_id |-> a,
                                               timestamp |-> now]>>],
                lock)

\* process_pending_updates(order_id), on_order_details_fetched(order_id) start
BeginDrain ==
    \E w \in Workers, o \in OrderIds :
        /\ threads[w].pc = "idle"
        /\ use_pending_queue
        /\ Step(Cur, w, [Resting EXCEPT !.pc = "drain", !.order_ids = <<o>>], lock)

\* process_all_pending_updates: the ids queued are listed under the lock
BeginDrainAll ==
    \E w \in Workers :
        /\ threads[w].pc = "idle"
        /\ CanAcquire(w)
        /\ QueuedIds(Cur) # {}
        /\ Step(Cur, w,
                [Resting EXCEPT !.pc = "drain", !.order_ids = SeqOfSet(QueuedIds(Cur))],
                lock)

\* process_pending_updates: with self._lock, and the test that the id is queued
DrainAcquire ==
    \E w \in Workers :
        LET r == threads[w]
        IN /\ r.pc = "drain"
           /\ CanAcquire(w)
           /\ IF pending_updates[Head(r.order_ids)] = <<>>
              THEN Step(Cur, w, NextUpdate(r), lock)
              ELSE Step(Cur, w, [r EXCEPT !.pc = "pop"], w)

\* process_pending_updates: the list is popped, and the end of the with
\* block; the pop of an id that is no longer queued raises KeyError
DrainPop ==
    \E w \in Workers :
        LET r  == threads[w]
            id == Head(r.order_ids)
        IN /\ r.pc = "pop"
           /\ IF pending_updates[id] = <<>>
              THEN Step(Cur, w, [Resting EXCEPT !.pc = "raised"], NoThread)
              ELSE Step([Cur EXCEPT !.pend = PopUpdates(@, id)], w,
                        [r EXCEPT !.pc = "update", !.order_id = id,
                                  !.updates = pending_updates[id]],
                        NoThread)

\* update_order_status: with self._lock, the order is read and the
\* transition checked; a call that does not reach the upsert returns
UpdateRead ==
    \E w \in Workers, gw \in GatewayOutcomes :
        LET r == threads[w]
            u == Head(r.updates)
            S == update_order_status(Cur, r.order_id, u.new_status, u.cookie_id, <<gw>>,
                                     now)
        IN /\ r.pc = "update"
           /\ CanAcquire(w)
           /\ IF S.calls[1].written = None
              THEN Step(S, w, NextUpdate(r), NoThread)
              ELSE Step(Cur, w,
                        [r EXCEPT !.pc = "write", !.current = S.calls[1].current,
                                  !.gw = gw],
                        w)

\* update_order_status: the upsert of the status resolved for the status
\* read, the history entry, and the end of the with block
UpdateWrite ==
    \E w \in Workers :
        LET r == threads[w]
            u == Head(r.updates)
            S == update_order_status([Cur EXCEPT !.db[r.order_id] = r.current],
                                     r.order_id, u.new_status, u.cookie_id, <<r.gw>>, now)
        IN /\ r.pc = "write"
           /\ IF S.calls[1].outcome = "committed"
              THEN Step(S, w, NextUpdate(r), NoThread)
              ELSE Step(Cur, w, NextUpdate(r), NoThread)

NextWorkers ==
    \/ OrderStored
    \/ CallUpdateOrderStatus
    \/ BeginDrain
    \/ BeginDrainAll
    \/ DrainAcquire
    \/ DrainPop
    \/ UpdateRead
    \/ UpdateWrite

SpecWorkers == InitWorkers /\ [][NextWorkers]_vars

(***************************************************************************)
(* The lock over whole operations.  Each worker runs a bounded number of   *)
(* public operations: update_order_status, process_pending_updates,        *)
(* on_order_id_extracted (without a message) and handle_system_message for *)
(* a notification without an order id.  A worker's record holds the        *)
(* statement it is at (pc; a pc X is the `with self._lock` that opens the  *)
(* block X_locked), how many times it holds the lock (depth), the          *)
(* operations it may still start (left), the updates it has to pass to     *)
(* update_order_status (updates), where that call returns to (ret), and    *)
(* for on_order_id_extracted the list at work and the placeholder of the   *)
(* record popped.  Every block is a with statement: the lock is given back *)
(* when the block is left, by its end, a return or an exception.           *)
(***************************************************************************)
MaxOperations == 2

\* the statuses of the direct update_order_status calls
LiveStatuses == {"shipped", "cancelled"}

\* a worker outside any operation that may start n more
Ready(n) ==
    [pc |-> "idle", depth |-> 0, left |-> n, order_id |-> "", cookie_id |-> "",
     updates |-> <<>>, ret |-> "idle", list |-> "sys", temp |-> ""]

\* the step of worker w that leaves the memory S and the worker's record rec;
\* w holds the lock while its depth is positive
Go(S, w, rec) ==
    /\ db' = S.db
    /\ order_status_history' = S.hist
    /\ pending_updates' = S.pend
    /\ pending_system_messages' = S.sys
    /\ pending_red_reminder_messages' = S.red
    /\ chat_order_map' = S.cache
    /\ threads' = [threads EXCEPT ![w] = rec]
    /\ lock' = IF rec.depth > 0 THEN w ELSE IF lock = w THEN NoThread ELSE lock
    /\ UNCHANGED now

\* the worker's record when update_order_status has returned: back in
\* on_order_id_extracted, or at the next update of a drain, or done
Return(r) ==
    IF r.ret = "hook" THEN [r EXCEPT !.pc = "hook_clean", !.updates = <<>>]
    ELSE IF Len(r.updates) > 1 THEN [r EXCEPT !.pc = "update", !.updates = Tail(@)]
    ELSE Ready(r.left)

InitLive ==
    /\ db = [o \in OrderIds |-> Absent]
    /\ order_status_history = [o \in OrderIds |-> <<>>]
    /\ pending_updates = [id \in AllIds |-> <<>>]
    /\ pending_system_messages = [a \in Accounts |-> <<>>]
    /\ pending_red_reminder_messages = [a \in Accounts |-> <<>>]
    /\ chat_order_map = [a \in Accounts |-> <<>>]
    /\ now = 0
    /\ lock = NoThread
    /\ threads = [w \in Workers |-> Ready(MaxOperations)]

\* update_order_status is called
StartUpdate(w) ==
    \E o \in OrderIds, s \in LiveStatuses, a \in Accounts :
        /\ threads[w].pc = "idle" /\ threads[w].left > 0
        /\ Go(Cur, w, [Ready(threads[w].left - 1) EXCEPT
                          !.pc = "update", !.order_id = o,
                          !.updates = <<[new_status |-> s, cookie_id |-> a]>>])

\* process_pending_updates is called
StartDrain(w) ==
    \E id \in AllIds :
        /\ threads[w].pc = "idle" /\ threads[w].left > 0
        /\ Go(Cur, w, [Ready(threads[w].left - 1) EXCEPT !.pc = "drain", !.order_id = id])

\* on_order_id_extracted is called without a message
StartHook(w) ==
    \E o \in OrderIds, a \in Accounts :
        /\ threads[w].pc = "idle" /\ threads[w].left > 0
        /\ Go(Cur, w, [Ready(threads[w].left - 1) EXCEPT
                          !.pc = "hook", !.order_id = o, !.cookie_id = a, !.ret = "hook"])

\* handle_system_message is called with a recognised text and a payload
\* without order id and without conversation identifier, up to the call of
\* _add_to_pending_updates; one such notification at a time, while no
\* placeholder is in use
StartNotify(w) ==
    \E a \in Accounts, text \in LockTexts :
        /\ threads[w].pc = "idle" /\ threads[w].left > 0
        /\ TempsInUse(Cur) = {}
        /\ \A v \in Workers : threads[v].pc \notin {"add", "add_locked", "append"}
        /\ extract_order_id(LockMessage) = None
        /\ Go(Cur, w, [Ready(threads[w].left - 1) EXCEPT
                          !.pc = "add", !.cookie_id = a,
                          !.updates = <<[new_status |-> classify(LockMessage, text),
                                         cookie_id |-> a]>>])

\* with self._lock: the worker waits until the lock is free or its own
Enter(w) ==
    /\ threads[w].pc \in {"update", "drain", "hook", "add"}
    /\ CanAcquire(w)
    /\ Go(Cur, w, [threads[w] EXCEPT !.pc = @ \o "_locked", !.depth = @ + 1])

\* update_order_status: the block, left by a return on every path (the
\* exceptions of the gateway are caught inside it)
UpdateLocked(w) ==
    \E gw \in GatewayOutcomes :
        LET r == threads[w]
            S == update_order_status(Cur, r.order_id, r.updates[1].new_status,
                                     r.updates[1].cookie_id, <<gw>>, now)
        IN /\ r.pc = "update_locked"
           /\ Go(S, w, Return([r EXCEPT !.depth = @ - 1]))

\* process_pending_updates: the block; an id that is not queued returns,
\* else its list is popped and replayed after the block
DrainLocked(w) ==
    LET r == threads[w]
    IN /\ r.pc = "drain_locked"
       /\ IF pending_updates[r.order_id] = <<>>
          THEN Go(Cur, w, Ready(r.left))
          ELSE Go([Cur EXCEPT !.pend = PopUpdates(@, r.order_id)], w,
                  [r EXCEPT !.pc = "update", !.depth = @ - 1,
                            !.updates = pending_updates[r.order_id]])

\* on_order_id_extracted: inside the block, the list at work; its oldest
\* record is popped and update_order_status called, the lock still held;
\* after the second list the block ends
HookLocked(w) ==
    LET r    == threads[w]
        list == Cur[r.list][r.cookie_id]
    IN /\ r.pc = "hook_locked"
       /\ IF ~use_pending_queue THEN Go(Cur, w, Ready(r.left))
          ELSE IF list # <<>>
          THEN Go([Cur EXCEPT ![r.list][r.cookie_id] =
                       RemoveAt(list, MatchIndex(list, NoMessage))],
                  w, [r EXCEPT !.pc = "update",
                               !.temp = list[MatchIndex(list, NoMessage)].temp_order_id,
                               !.updates =
                                   <<[new_status |->
                                          list[MatchIndex(list, NoMessage)].new_status,
                                      cookie_id |-> r.cookie_id]>>])
          ELSE IF r.list = "sys" THEN Go(Cur, w, [r EXCEPT !.list = "red"])
          ELSE Go(Cur, w, Ready(r.left))

\* on_order_id_extracted: back from update_order_status, the placeholder's
\* queue is deleted; then the second list, or the end of the block
HookClean(w) ==
    LET r == threads[w]
        S == [Cur EXCEPT !.pend[r.temp] = <<>>]
    IN /\ r.pc = "hook_clean"
       /\ IF r.list = "sys"
          THEN Go(S, w, [r EXCEPT !.pc = "hook_locked", !.list = "red", !.temp = ""])
          ELSE Go(S, w, Ready(r.left))

\* _add_to_pending_updates: the block, for the placeholder of the notification
AddLocked(w) ==
    LET r == threads[w]
    IN /\ r.pc = "add_locked"
       /\ Go([Cur EXCEPT !.pend = _add_to_pending_updates(@, FreshTemp(Cur),
                                                          r.updates[1].new_status,
                                                          r.cookie_id, now)],
             w, [r EXCEPT !.pc = "append", !.depth = @ - 1, !.temp = FreshTemp(Cur)])

\* handle_system_message: the record is appended outside any block, and True
\* is returned
AppendRecord(w) ==
    LET r == threads[w]
    IN /\ r.pc = "append"
       /\ Go([Cur EXCEPT !.sys[r.cookie_id] =
                  Append(@, PendingMessage(LockMessage, r.updates[1].new_status,
                                           r.temp, now))],
             w, Ready(r.left))

\* a statement of worker w inside an operation
Statement(w) ==
    \/ Enter(w)
    \/ UpdateLocked(w)
    \/ DrainLocked(w)
    \/ HookLocked(w)
    \/ HookClean(w)
    \/ AddLocked(w)
    \/ AppendRecord(w)

NextLive ==
    \/ OrderStored
    \/ \E w \in Workers : StartUpdate(w)
    \/ \E w \in Workers : StartDrain(w)
    \/ \E w \in Workers : StartHook(w)
    \/ \E w \in Workers : StartNotify(w)
    \/ \E w \in Workers : Statement(w)

\* a worker inside an operation that can take its next statement is
\* scheduled in the end
SpecLive ==
    InitLive /\ [][NextLive]_vars /\ \A w \in Workers : WF_vars(Statement(w))

(***************************************************************************)
(* The history log on its own: updates of stored orders without a bound on *)
(* their number, so that a log grows past HistoryCap entries.  The queues  *)
(* keep their initial value.                                               *)
(***************************************************************************)
\* the memory S becomes the state
Install(S) ==
    /\ db' = S.db
    /\ order_status_history' = S.hist
    /\ pending_updates' = S.pend
    /\ pending_system_messages' = S.sys
    /\ pending_red_reminder_messages' = S.red
    /\ chat_order_map' = S.cache
    /\ UNCHANGED <<now, lock, threads>>

UpdateStoredOrder ==
    \E o \in OrderIds, s \in status_mapping, a \in Accounts, gws \in Gws(1) :
        /\ db[o] # Absent
        /\ Install(update_order_status(Cur, o, s, a, gws, now))

NextHistory ==
    \/ OrderStored
    \/ UpdateStoredOrder

SpecHistory == Init /\ [][NextHistory]_vars

(***************************************************************************)
(* Properties.                                                             *)
(***************************************************************************)
\* gateway behaviours under which both calls return and the upsert succeeds
GatewaySucceeds ==
    {[get_fails |-> g, put_fails |-> p, put_ret |-> TRUE] :
        g \in 0..(max_retries - 1), p \in 0..(max_retries - 1)}

\* the update_order_status call left db, the history log and the queue alone
Untouched(S) ==
    /\ S.db = db
    /\ S.hist = order_status_history
    /\ S.pend = pending_updates

\* no call of S passed a status to the gateway's upsert
NoUpsert(S) == \A i \in DOMAIN S.calls : S.calls[i].written = None

HistoryEntry(from_status, to_status) == [from_status |-> from_status, to_status |-> to_status]

\* the statuses of the table an order has once it left processing
LeftProcessing == TransitionKeys \ {"processing"}

\* C1: an order whose persisted status is a status of the transition table
\* other than processing keeps such a status in every step of every engine
\* operation: no commit sets it back to processing.
C1_NeverBackToProcessing ==
    [][\A o \in OrderIds : db[o] \in LeftProcessing => db'[o] \in LeftProcessing]_vars

\* an order that left processing and was committed again afterwards
C1_Witness ==
    \E o \in OrderIds :
        /\ Len(order_status_history[o]) >= 2
        /\ order_status_history[o][1].from_status = "processing"
        /\ db[o] \in LeftProcessing

\* C2: refund_cancelled is never a persisted status and never the to_status
\* of a history entry; an update_order_status call with the candidate
\* refund_cancelled that reaches the upsert passes the to_status of the
\* order's latest history entry, or the persisted status if there is none.
C2_RefundCancelledResolved ==
    /\ \A o \in OrderIds :
        /\ db[o] # "refund_cancelled"
        /\ \A i \in DOMAIN order_status_history[o] :
               order_status_history[o][i].to_status # "refund_cancelled"
    /\ \A o \in OrderIds, a \in Accounts, gw \in GatewayOutcomes \cup GatewaySucceeds :
        LET S    == update_order_status(Cur, o, "refund_cancelled", a, <<gw>>, now)
            h    == order_status_history[o]
            prev == IF h = <<>> THEN db[o] ELSE h[Len(h)].to_status
        IN /\ S.calls[1].written # None => S.calls[1].written = prev
           /\ S.calls[1].outcome = "committed" => S.db[o] = prev

\* a refund_cancelled candidate was committed: the only commit that records
\* an entry from a status to itself
C2_Witness ==
    \E o \in OrderIds :
        /\ order_status_history[o] # <<>>
        /\ order_status_history[o][Len(order_status_history[o])] =
               HistoryEntry("refunding", "refunding")
        /\ db[o] = "refunding"
        /\ \E a \in Accounts :
               update_order_status(Cur, o, "refund_cancelled", a, <<GwOk>>, now)
                   .calls[1].written = "refunding"

\* the texts of message_status_mapping
NotificationTexts ==
    {MsgReceivedByBuyer, MsgReceivedByYou, MsgShippedBracket, MsgShipped, MsgShippedLong,
     MsgPaidAwaitShip, MsgOrdered, MsgBuyerPaid, MsgPaymentDone, MsgPaidToShip, MsgRefundOk,
     MsgSellerClosed}

\* the texts classified as status s, delivered with an extractable order id
TextsOf(s) == {text \in NotificationTexts : classify(Plain("12345", {ChatA}, TRUE), text) = s}

\* the notification (o, text) delivered twice to the current memory: the
\* results of the first and of the second delivery
Twice(o, a, text, g1, g2) ==
    LET m  == Plain(o, {ChatA}, TRUE)
        R1 == handle_system_message(Cur, m, text, a, <<ChatA>>, <<g1>>, now)
        R2 == handle_system_message([R1.S EXCEPT !.calls = <<>>], m, text, a, <<ChatA>>,
                                    <<g2>>, now)
    IN <<R1, R2>>

\* C4: for an order whose persisted status equals the candidate status, a
\* notification delivered once or twice leaves the persisted status, the
\* history log and the queue as they are, passes nothing to the upsert and
\* returns True each time; update_order_status itself reports success
\* whenever it can read the order.
C4_SameStatusNoOp ==
    \A o \in OrderIds, a \in Accounts, g1 \in GatewayOutcomes, g2 \in GatewayOutcomes :
        /\ \A text \in TextsOf(db[o]) :
            LET R == Twice(o, a, text, g1, g2)
            IN /\ Untouched(R[1].S) /\ NoUpsert(R[1].S) /\ R[1].ret = "True"
               /\ Untouched(R[2].S) /\ NoUpsert(R[2].S) /\ R[2].ret = "True"
               /\ Len(R[1].S.calls) = 1 /\ Len(R[2].S.calls) = 1
               /\ g1.get_fails < max_retries => R[1].S.calls[1].ok
               /\ g2.get_fails < max_retries => R[2].S.calls[1].ok
        /\ db[o] \in status_mapping =>
            LET S == update_order_status(Cur, o, db[o], a, <<g1>>, now)
            IN /\ Untouched(S) /\ NoUpsert(S)
               /\ g1.get_fails < max_retries => S.calls[1].ok

\* a shipped order that no commit of the engine has touched, to which the
\* notification "you have shipped" has been delivered (the cache holds what
\* the delivery remembered) and is delivered again without effect
C4_Witness ==
    \E o \in OrderIds, a \in Accounts :
        /\ db[o] = "shipped"
        /\ order_status_history[o] = <<>>
        /\ KeyIndex(chat_order_map[a], ChatA) # 0
        /\ LET R == Twice(o, a, MsgShipped, GwOk, GwOk)
           IN Untouched(R[2].S) /\ R[2].S.calls[1].outcome = "noop"

\* C5 as stated: for an order whose persisted status is cancelled, a status
\* request with any target status is rejected as an invalid transition, and
\* nothing changes.
C5_AnyTargetRejected ==
    \A o \in OrderIds, a \in Accounts, s \in status_mapping :
        db[o] = "cancelled" =>
            LET S == update_order_status(Cur, o, s, a, <<GwOk>>, now)
            IN S.calls[1].outcome = "invalid" /\ ~S.calls[1].ok /\ Untouched(S)

\* C5: for an order whose persisted status is cancelled, a status request
\* changes nothing and passes nothing to the upsert whatever its target; it
\* returns False for every target other than cancelled (as an invalid
\* transition whenever the order can be read), and True, as a repeated
\* status, for the target cancelled when the order can be read.
C5_CancelledTerminal ==
    \A o \in OrderIds, a \in Accounts, s \in status_mapping,
       gw \in GatewayOutcomes \cup GatewaySucceeds :
        db[o] = "cancelled" =>
            LET S    == update_order_status(Cur, o, s, a, <<gw>>, now)
                call == S.calls[1]
                read == gw.get_fails < max_retries
            IN /\ Untouched(S) /\ NoUpsert(S)
               /\ s # "cancelled" => ~call.ok
               /\ s # "cancelled" /\ read => call.outcome = "invalid"
               /\ s = "cancelled" /\ read => call.ok /\ call.outcome = "noop"
               /\ ~read => ~call.ok

\* an order whose commit to cancelled is on record, on which a request for
\* refunding is rejected as an invalid transition
C5_Witness ==
    \E o \in OrderIds, a \in Accounts :
        /\ db[o] = "cancelled"
        /\ order_status_history[o] # <<>>
        /\ order_status_history[o][Len(order_status_history[o])].to_status = "cancelled"
        /\ update_order_status(Cur, o, "refunding", a, <<GwOk>>, now).calls[1].outcome
               = "invalid"

\* C6 as stated: the cache of one account never holds more than
\* _chat_order_map_max_size entries.
C6_CacheWithinCapacity ==
    \A a \in Accounts : Len(chat_order_map[a]) <= _chat_order_map_max_size

\* the entries of the cache of a under one of the keys ids
Matching(a, ids) ==
    {i \in DOMAIN chat_order_map[a] : \E k \in DOMAIN ids : chat_order_map[a][i].key = ids[k]}

\* C7: a lookup returns the order id of an entry under one of the payload's
\* identifiers that is at most _chat_order_map_ttl old, and returns None if
\* every entry under one of the payload's identifiers is older than that.
C7_LookupSkipsExpired ==
    \A a \in Accounts, chat \in CacheChats :
        \A ids \in Orderings(_extract_chat_identifiers(Plain(None, chat, TRUE))) :
            LET found == _lookup_order_id_by_message(chat_order_map[a], ids, now).order_id
                fresh == {i \in Matching(a, ids) :
                             now - chat_order_map[a][i].timestamp <= _chat_order_map_ttl}
            IN /\ found # None => \E i \in fresh : chat_order_map[a][i].order_id = found
               /\ fresh = {} => found = None

\* a cache whose only entry under the payload's identifier is older than the
\* TTL: the lookup returns None and drops the entry
C7_Witness ==
    \E a \in Accounts :
        LET ids == <<Ident(101, "")>>
            r   == _lookup_order_id_by_message(chat_order_map[a], ids, now)
        IN /\ Matching(a, ids) # {}
           /\ \A i \in Matching(a, ids) :
                  now - chat_order_map[a][i].timestamp > _chat_order_map_ttl
           /\ r.order_id = None
           /\ Len(r.mapping) < Len(chat_order_map[a])

\* C8 as stated: for an order that is refunding with the history
\* <<(pending_ship, refunding)>>, the card "refund request initiated" with
\* the button "withdrawn" commits pending_ship.
C8_WithdrawnRestoresPendingShip ==
    \A o \in OrderIds, a \in Accounts, gw \in GatewaySucceeds :
        (/\ db[o] = "refunding"
         /\ order_status_history[o] = <<HistoryEntry("pending_ship", "refunding")>>) =>
            LET R == handle_system_message(Cur, WithdrawnCard(o, {}), NoText, a, <<>>,
                                           <<gw>>, now)
            IN R.S.db[o] = "pending_ship"

\* the record on_order_id_extracted takes first when called without a message
FirstPending(a) ==
    IF pending_system_messages[a] # <<>> THEN pending_system_messages[a][1]
    ELSE pending_red_reminder_messages[a][1]

\* some queue of S holds an update to status s
Queued(S, s) ==
    \E id \in AllIds : \E k \in DOMAIN S.pend[id] : S.pend[id][k].new_status = s

\* C3 as stated, for one resolution: when on_order_id_extracted runs for an
\* account with one deferred notification and a stored order whose status
\* allows the notification's target status, the target status is committed,
\* or the notification is still held (queued or recorded) afterwards.
C3_DeferredCommittedOrKept ==
    \A a \in Accounts, o \in OrderIds, gws \in Gws(1) :
        (/\ Len(pending_system_messages[a]) + Len(pending_red_reminder_messages[a]) = 1
         /\ db[o] # Absent
         /\ _is_valid_status_transition(db[o], FirstPending(a).new_status)) =>
            LET R == on_order_id_extracted(Cur, o, a, NoMessage, <<>>, gws, now)
                s == FirstPending(a).new_status
            IN \/ R.S.db[o] = ResolvedStatus(order_status_history[o], db[o], s)
               \/ Queued(R.S, s)
               \/ R.S.sys[a] # <<>>
               \/ R.S.red[a] # <<>>

\* C9 as stated, for the resolution: when on_order_id_extracted runs for an
\* account with a pending red reminder, and the gateway succeeds, the record
\* is drained, cancelled is the persisted status of the resolved order, and
\* the placeholder's queue is gone.
C9_ResolvedCommitsCancelled ==
    \A a \in Accounts, o \in OrderIds :
        pending_red_reminder_messages[a] # <<>> =>
            LET R    == on_order_id_extracted(Cur, o, a, NoMessage, <<>>, <<GwOk, GwOk>>, now)
                temp == pending_red_reminder_messages[a][1].temp_order_id
            IN /\ R.S.red[a] = Tail(pending_red_reminder_messages[a])
               /\ R.S.db[o] = "cancelled"
               /\ R.S.pend[temp] = <<>>

\* payloads without an extractable order id
IdLess == {Plain(None, chat, h) : chat \in {{}, {ChatA}}, h \in BOOLEAN}

\* C9, first half: a "transaction closed" red reminder whose payload yields
\* no order id and no cached one is queued as cancelled under a fresh
\* placeholder id; it is recorded in the account's list of pending red
\* reminders and True is returned, unless the payload cannot be hashed: then
\* no record is made and False is returned.  No status is touched.
C9_Enqueued ==
    \A a \in Accounts, m \in IdLess, gw \in GatewayOutcomes :
        \A ids \in Orderings(_extract_chat_identifiers(m)) :
            _lookup_order_id_by_message(chat_order_map[a], ids, now).order_id = None =>
                LET R    == handle_red_reminder_message(Cur, m, RedReminderClosed, a, ids,
                                                        <<gw>>, now)
                    temp == FreshTemp(Cur)
                    list == R.S.red[a]
                IN /\ pending_updates[temp] = <<>>
                   /\ R.S.pend = [pending_updates EXCEPT ![temp] =
                                     <<[new_status |-> "cancelled", cookie_id |-> a,
                                        timestamp |-> now]>>]
                   /\ R.S.db = db /\ R.S.hist = order_status_history /\ R.S.calls = <<>>
                   /\ R.S.sys = pending_system_messages
                   /\ m.hashable =>
                        /\ R.ret = "True"
                        /\ Len(list) = Len(pending_red_reminder_messages[a]) + 1
                        /\ SubSeq(list, 1, Len(list) - 1) = pending_red_reminder_messages[a]
                        /\ list[Len(list)].new_status = "cancelled"
                        /\ list[Len(list)].temp_order_id = temp
                   /\ ~m.hashable =>
                        /\ R.ret = "False"
                        /\ R.S.red = pending_red_reminder_messages

\* C9, second half: on_order_id_extracted for an account with a pending red
\* reminder, called with a message that can be hashed or with none, removes
\* one record from the list, deletes the queue of the record's placeholder
\* and passes cancelled to update_order_status once for the resolved order
\* id, as its last call.  That call commits cancelled exactly when it reads a
\* stored order whose status allows cancelled and the upsert succeeds; it
\* queues cancelled under the resolved order id exactly when it reads that
\* the order is not stored; in every other case it changes nothing.  Called
\* with a message that cannot be hashed, the hook raises and removes nothing.
C9_Drained ==
    \A a \in Accounts, o \in OrderIds, m \in HookMessages, gws \in Gws(2) :
        \A ids \in Orderings(IF m = NoMessage THEN {} ELSE _extract_chat_identifiers(m)) :
            pending_red_reminder_messages[a] # <<>> =>
                LET R     == on_order_id_extracted(Cur, o, a, m, ids, gws, now)
                    n     == Len(R.S.calls)
                    c     == R.S.calls[n]
                    gw    == gws[n]
                    alone == pending_system_messages[a] = <<>>
                IN
                IF m # NoMessage /\ ~m.hashable
                THEN /\ R.ret = "raised"
                     /\ Untouched(R.S) /\ R.S.calls = <<>>
                     /\ R.S.red = pending_red_reminder_messages
                     /\ R.S.sys = pending_system_messages
                ELSE /\ R.ret = "None"
                     /\ \E i \in DOMAIN pending_red_reminder_messages[a] :
                            /\ R.S.red[a] = RemoveAt(pending_red_reminder_messages[a], i)
                            /\ R.S.pend[pending_red_reminder_messages[a][i].temp_order_id]
                                   = <<>>
                     /\ n = IF alone THEN 1 ELSE 2
                     /\ c.order_id = o /\ c.requested = "cancelled"
                     /\ alone /\ c.current # None => c.current = db[o]
                     /\ c.outcome = "committed" <=>
                            /\ gw \in GatewaySucceeds
                            /\ c.current \notin {None, Absent, "cancelled"}
                            /\ _is_valid_status_transition(c.current, "cancelled")
                     /\ c.outcome = "committed" =>
                            /\ R.S.db[o] = "cancelled"
                            /\ R.S.hist[o][Len(R.S.hist[o])]
                                   = HistoryEntry(c.current, "cancelled")
                     /\ c.outcome = "deferred" <=>
                            gw.get_fails < max_retries /\ c.current = Absent
                     /\ c.outcome = "deferred" =>
                            /\ R.S.pend[o] # <<>>
                            /\ R.S.pend[o][Len(R.S.pend[o])].new_status = "cancelled"
                     /\ alone /\ c.outcome \notin {"committed", "deferred"} =>
                            /\ R.S.db = db /\ R.S.hist = order_status_history
                            /\ R.S.pend[o] = pending_updates[o]
                            /\ c.written # None => ~c.ok

\* C9: a "transaction closed" red reminder without an order id is queued
\* under a fresh placeholder and recorded; a later resolution of an order id
\* for the account removes the record and the placeholder's queue and
\* passes cancelled to update_order_status once for the resolved order id,
\* which commits it, queues it under that id, or drops it.
C9_RedReminderDeferred == C9_Enqueued /\ C9_Drained

\* an account with a pending red reminder and a stored order in pending_ship:
\* the resolution commits cancelled and empties the list and the queue
C9_Witness ==
    \E a \in Accounts, o \in OrderIds :
        /\ pending_red_reminder_messages[a] # <<>>
        /\ pending_updates[pending_red_reminder_messages[a][1].temp_order_id] # <<>>
        /\ db[o] = "pending_ship"
        /\ LET R == on_order_id_extracted(Cur, o, a, NoMessage, <<>>, <<GwOk>>, now)
           IN /\ R.S.db[o] = "cancelled"
              /\ R.S.red[a] = <<>>
              /\ \A id \in AllIds : R.S.pend[id] = <<>>

\* C10: for an order whose persisted status is pending_ship, the text "you
\* have shipped" with the order id in the payload commits shipped, given a
\* gateway that succeeds, and appends the one entry (pending_ship, shipped)
\* to the order's history.
C10_ShippedCommitted ==
    \A o \in OrderIds, a \in Accounts, gw \in GatewaySucceeds :
        db[o] = "pending_ship" =>
            LET R == handle_system_message(Cur, Plain(o, {ChatA}, TRUE), MsgShipped, a,
                                           <<ChatA>>, <<gw>>, now)
            IN /\ R.ret = "True"
               /\ R.S.db[o] = "shipped"
               /\ R.S.hist[o] = Append(order_status_history[o],
                                       HistoryEntry("pending_ship", "shipped"))
               /\ R.S.pend = pending_updates

\* an order stored as pending_ship whose one commit is the one to shipped,
\* made by a delivery that remembered the conversation
C10_Witness ==
    \E o \in OrderIds, a \in Accounts :
        /\ db[o] = "shipped"
        /\ order_status_history[o] = <<HistoryEntry("pending_ship", "shipped")>>
        /\ KeyIndex(chat_order_map[a], ChatA) # 0
        /\ chat_order_map[a][KeyIndex(chat_order_map[a], ChatA)].order_id = o

\* the call behind S committed a status or left an update in the queue
Mutated(S) ==
    \/ \E i \in DOMAIN S.calls : S.calls[i].outcome = "committed"
    \/ S.pend # pending_updates

\* C11: handle_system_message and handle_red_reminder_message return True
\* exactly when the call committed a status or enqueued an update; a call
\* whose update is rejected or whose commit fails, with nothing enqueued,
\* returns False.
C11_TrueIffMutation ==
    \A a \in Accounts, gw \in GatewayOutcomes :
        /\ \A s \in Samples :
            \A ids \in Orderings(_extract_chat_identifiers(s.message)) :
                LET R == handle_system_message(Cur, s.message, s.send_message, a, ids,
                                               <<gw>>, now)
                IN (R.ret = "True") <=> Mutated(R.S)
        /\ \A s \in RedSamples :
            \A ids \in Orderings(_extract_chat_identifiers(s.message)) :
                LET R == handle_red_reminder_message(Cur, s.message, s.red_reminder, a,
                                                     ids, <<gw>>, now)
                IN (R.ret = "True") <=> Mutated(R.S)

\* every status a transition request may name
AllStatuses == status_mapping \cup {LegacyStatus}

\* update_order_status for order o with target n, the gateway succeeding
Requested(o, a, n) == update_order_status(Cur, o, n, a, <<GwOk>>, now)

\* C12: _is_valid_status_transition agrees with the reference table on every
\* pair of statuses: processing reaches exactly pending_ship, shipped,
\* completed and cancelled; pending_ship, shipped and completed each reach
\* refunding and cancelled and never processing; refunding reaches exactly
\* completed, cancelled and refund_cancelled; cancelled reaches nothing; a
\* current status that is not a key of the table reaches every status.  The
\* decision update_order_status takes on the persisted status of an order is
\* the one of the function.
C12_AgreesWithTable ==
    /\ \A n \in AllStatuses :
        /\ _is_valid_status_transition("processing", n)
              <=> n \in {"pending_ship", "shipped", "completed", "cancelled"}
        /\ _is_valid_status_transition("refunding", n)
              <=> n \in {"completed", "cancelled", "refund_cancelled"}
        /\ ~_is_valid_status_transition("cancelled", n)
        /\ _is_valid_status_transition(LegacyStatus, n)
    /\ \A c \in {"pending_ship", "shipped", "completed"} :
        /\ _is_valid_status_transition(c, "refunding")
        /\ _is_valid_status_transition(c, "cancelled")
        /\ ~_is_valid_status_transition(c, "processing")
    /\ \A o \in OrderIds, a \in Accounts, n \in status_mapping :
        db[o] \notin {Absent, n} =>
            (Requested(o, a, n).calls[1].outcome = "invalid"
                <=> ~_is_valid_status_transition(db[o], n))

\* an order that left the legacy status through an accepted request and is
\* refunding now, where a request for refund_cancelled would pass validation
\* and one for shipped would be rejected
C12_Witness ==
    \E o \in OrderIds, a \in Accounts :
        /\ db[o] = "refunding"
        /\ order_status_history[o] # <<>>
        /\ order_status_history[o][1].from_status = LegacyStatus
        /\ Requested(o, a, "refund_cancelled").calls[1].outcome = "committed"
        /\ Requested(o, a, "shipped").calls[1].outcome = "invalid"

\* C18 as stated: for every current status other than processing, also one
\* that is not a key of the table, _is_valid_status_transition(current,
\* processing) is false, whatever status an order is persisted with.
C18_NoReturnFromAnyStatus ==
    \A o \in OrderIds :
        db[o] \notin {Absent, "processing"} =>
            \A c \in {db[o]} \cup (AllStatuses \ {"processing"}) :
                ~_is_valid_status_transition(c, "processing")

\* C18: for every current status that is a key of the table, other than
\* processing, _is_valid_status_transition(current, processing) is false and
\* a request for processing on an order persisted with that status is
\* rejected as invalid; for a current status that is not a key it is true,
\* the compatibility test coming first.
C18_NoReturnToProcessing ==
    /\ \A c \in TransitionKeys \ {"processing"} :
        ~_is_valid_status_transition(c, "processing")
    /\ \A c \in AllStatuses \ TransitionKeys :
        _is_valid_status_transition(c, "processing")
    /\ \A o \in OrderIds, a \in Accounts :
        db[o] \notin {Absent, "processing"} =>
            LET S == Requested(o, a, "processing")
            IN IF db[o] \in TransitionKeys
               THEN S.calls[1].outcome = "invalid" /\ Untouched(S)
               ELSE S.calls[1].outcome = "committed" /\ S.db[o] = "processing"

\* an order that went from the legacy status to processing and on to
\* pending_ship, from where a request for processing is rejected
C18_Witness ==
    \E o \in OrderIds, a \in Accounts :
        /\ db[o] = "pending_ship"
        /\ Len(order_status_history[o]) = 2
        /\ order_status_history[o][1] = HistoryEntry(LegacyStatus, "processing")
        /\ Requested(o, a, "processing").calls[1].outcome = "invalid"

\* gateway behaviours in which all max_retries attempts of the read, or of the
\* write, raise
RetriesExhausted == {gw \in GatewayOutcomes : gw.get_fails >= max_retries
                                               \/ gw.put_fails >= max_retries}

\* the update (new_status, cookie_id) is queued under id in S
InQueue(S, id, new_status, cookie_id) ==
    \E i \in DOMAIN S.pend[id] :
        S.pend[id][i].new_status = new_status /\ S.pend[id][i].cookie_id = cookie_id

\* C14: each gateway call is attempted at most max_retries = 3 times; when
\* all attempts of the read or of the write fail, update_order_status
\* reports failure and leaves the persisted status and the history log as
\* they are, and the update stays deliverable: the caller of a direct call is
\* told of the failure, and an update replayed from the queue by
\* process_pending_updates is still queued afterwards.
C14_FailedCommitRedeliverable ==
    /\ \A gw \in GatewayOutcomes :
        gw.get_fails <= max_retries /\ gw.put_fails <= max_retries
    /\ \A o \in OrderIds, n \in status_mapping, a \in Accounts, gw \in RetriesExhausted :
        LET S == update_order_status(Cur, o, n, a, <<gw>>, now)
        IN S.calls[1].outcome \in {"read_failed", "write_failed"} =>
              /\ ~S.calls[1].ok
              /\ S.db = db /\ S.hist = order_status_history
    /\ \A id \in AllIds :
        \A gws \in Gws(Len(pending_updates[id])) :
            LET S == process_pending_updates(Cur, id, gws, now)
            IN \A i \in DOMAIN S.calls :
                  S.calls[i].outcome \in {"read_failed", "write_failed"} =>
                      /\ S.db = db /\ S.hist = order_status_history
                      /\ InQueue(S, id, pending_updates[id][i].new_status,
                                 pending_updates[id][i].cookie_id)

\* C15: when validation rejects the pair (persisted status, requested
\* status), update_order_status returns False, passes nothing to the upsert,
\* and leaves the persisted status, the history log, the queue and the
\* pending-notification lists as they are.
C15_InvalidRejectedUnchanged ==
    \A o \in OrderIds, n \in status_mapping, a \in Accounts, gw \in GatewayOutcomes :
        (/\ db[o] \notin {Absent, n}
         /\ ~_is_valid_status_transition(db[o], n)
         /\ gw.get_fails < max_retries) =>
            LET S == update_order_status(Cur, o, n, a, <<gw>>, now)
            IN /\ Len(S.calls) = 1 /\ ~S.calls[1].ok
               /\ NoUpsert(S)
               /\ Untouched(S)
               /\ S.sys = pending_system_messages
               /\ S.red = pending_red_reminder_messages

\* an order that was shipped by a commit, where a request for pending_ship is
\* rejected by validation
C15_Witness ==
    \E o \in OrderIds, a \in Accounts :
        /\ db[o] = "shipped"
        /\ order_status_history[o] = <<HistoryEntry("pending_ship", "shipped")>>
        /\ ~_is_valid_status_transition(db[o], "pending_ship")
        /\ Requested(o, a, "pending_ship").calls[1].outcome = "invalid"

\* C16: when handle_system_message or handle_red_reminder_message returns
\* False, the queue and the pending-notification lists are as before the
\* call; every placeholder queued has its pending-notification record.
C16_FailureLeavesMapsIntact ==
    /\ \A a \in Accounts, gw \in GatewayOutcomes :
        /\ \A s \in Samples :
            \A ids \in Orderings(_extract_chat_identifiers(s.message)) :
                LET R == handle_system_message(Cur, s.message, s.send_message, a, ids,
                                               <<gw>>, now)
                IN R.ret = "False" =>
                      /\ R.S.pend = pending_updates
                      /\ R.S.sys = pending_system_messages
                      /\ R.S.red = pending_red_reminder_messages
        /\ \A s \in RedSamples :
            \A ids \in Orderings(_extract_chat_identifiers(s.message)) :
                LET R == handle_red_reminder_message(Cur, s.message, s.red_reminder, a,
                                                     ids, <<gw>>, now)
                IN R.ret = "False" =>
                      /\ R.S.pend = pending_updates
                      /\ R.S.sys = pending_system_messages
                      /\ R.S.red = pending_red_reminder_messages
    /\ \A id \in TempIds :
        pending_updates[id] # <<>> =>
            \E a \in Accounts :
                \/ \E i \in DOMAIN pending_system_messages[a] :
                      pending_system_messages[a][i].temp_order_id = id
                \/ \E i \in DOMAIN pending_red_reminder_messages[a] :
                      pending_red_reminder_messages[a][i].temp_order_id = id

\* C19 as stated: a refund_cancelled candidate is replaced by the resolved
\* status before validation, so that a request is rejected as invalid exactly
\* when the pair (persisted status, resolved status) is not a transition.
C19_ResolvedBeforeValidation ==
    \A o \in OrderIds, a \in Accounts :
        db[o] \notin {Absent, "refund_cancelled"} =>
            (Requested(o, a, "refund_cancelled").calls[1].outcome = "invalid"
                <=> ~_is_valid_status_transition(
                        db[o], ResolvedStatus(order_status_history[o], db[o],
                                              "refund_cancelled")))

\* C19: a refund_cancelled candidate is validated as it is, as the pair
\* (persisted status, refund_cancelled), which passes exactly when the
\* persisted status is refunding or is not a key of the table; once it has
\* passed, the status handed to the upsert is the to_status of the order's
\* most recent history entry, or the persisted status when there is none.
C19_ValidatedThenResolved ==
    \A o \in OrderIds, a \in Accounts, gw \in GatewayOutcomes :
        (db[o] \notin {Absent, "refund_cancelled"} /\ gw.get_fails < max_retries) =>
            LET S == update_order_status(Cur, o, "refund_cancelled", a, <<gw>>, now)
                c == S.calls[1]
                h == order_status_history[o]
            IN /\ c.outcome = "invalid"
                     <=> db[o] \in TransitionKeys \ {"refunding"}
               /\ c.outcome # "invalid" =>
                     c.written = IF h # <<>> THEN h[Len(h)].to_status ELSE db[o]

\* an order that went from pending_ship to refunding and whose withdrawn
\* refund was validated as (refunding, refund_cancelled) and then resolved
\* to the last to_status, refunding
C19_Witness ==
    \E o \in OrderIds, a \in Accounts :
        /\ db[o] = "refunding"
        /\ order_status_history[o] = <<HistoryEntry("pending_ship", "refunding"),
                                       HistoryEntry("refunding", "refunding")>>
        /\ Requested(o, a, "refund_cancelled").calls[1].outcome = "committed"

\* C20: for an order that is not in the store, update_order_status appends
\* the one update (status, account) to the queue of the real order id,
\* returns False, passes nothing to the upsert and leaves the store and the
\* history log as they are.
C20_AbsentOrderDeferred ==
    \A o \in OrderIds, n \in status_mapping, a \in Accounts, gw \in GatewayOutcomes :
        (db[o] = Absent /\ gw.get_fails < max_retries) =>
            LET S == update_order_status(Cur, o, n, a, <<gw>>, now)
            IN /\ S.pend = [pending_updates EXCEPT ![o] =
                               Append(@, [new_status |-> n, cookie_id |-> a,
                                          timestamp |-> now])]
               /\ Len(S.calls) = 1 /\ ~S.calls[1].ok
               /\ NoUpsert(S)
               /\ S.db = db /\ S.hist = order_status_history
               /\ S.sys = pending_system_messages
               /\ S.red = pending_red_reminder_messages

\* an update for an order not yet stored, queued under the real order id by
\* a notification that carried the id and was remembered in the cache
C20_Witness ==
    \E o \in OrderIds, a \in Accounts :
        /\ db[o] = Absent
        /\ Len(pending_updates[o]) = 1
        /\ pending_updates[o][1].new_status = "shipped"
        /\ pending_updates[o][1].cookie_id = a
        /\ KeyIndex(chat_order_map[a], ChatA) # 0
        /\ \A id \in TempIds : pending_updates[id] = <<>>

\* the newest timestamp among the updates queued under id
NewestStamp(id) ==
    LET list == pending_updates[id]
    IN list[CHOOSE i \in DOMAIN list :
                \A j \in DOMAIN list : list[j].timestamp <= list[i].timestamp].timestamp

\* C17: the updates queued under an id whose order is unresolved or absent
\* are destroyed by a sweep made once the age of each of them exceeds
\* max_pending_age_hours, counted from the time it was enqueued: a drain
\* made in between (process_pending_updates, process_all_pending_updates)
\* does not keep them in the queue.
C17_SweptPastRetention ==
    \A id \in AllIds :
        (pending_updates[id] # <<>> /\ get_order_by_id(Cur, id) = Absent) =>
            LET late == NewestStamp(id) + max_pending_age_hours + 1
            IN late >= now =>
                /\ \A gws \in Gws(Len(pending_updates[id])) :
                      clear_old_pending_updates(
                          process_pending_updates(Cur, id, gws, now),
                          <<>>, late).pend[id] = <<>>
                /\ \A gws \in Gws(QueuedCount(Cur)) :
                      clear_old_pending_updates(
                          process_all_pending_updates(Cur, gws, now).S,
                          <<>>, late).pend[id] = <<>>

\* the handler's in-memory maps
SharedMaps == <<order_status_history, pending_updates, pending_system_messages,
                pending_red_reminder_messages, chat_order_map>>

\* the thread whose statement the step is holds the lock when it changes one
\* of the in-memory maps
MutationUnderLock ==
    SharedMaps' # SharedMaps =>
        \E t \in Threads : threads'[t].pc # threads[t].pc /\ lock = t

\* no thread is about to append to a pending-notification list while
\* another has read that list in clear_old_pending_updates and not yet
\* rewritten it, or is between popping from it and finishing in
\* on_order_id_extracted
NoAppendDuringRewrite ==
    ~(/\ threads["h"].pc = "append"
      /\ \/ threads["s"].pc \in {"sys_write", "sys_delete"}
         \/ threads["r"].pc \in {"update", "red"})

\* C13: every change of the history map, the queue, the two
\* pending-notification maps and the mapping cache is made by a thread that
\* holds the lock, and no thread appends to a pending-notification list
\* while another iterates or rewrites it in clear_old_pending_updates or in
\* on_order_id_extracted.
C13_MutationsUnderLock ==
    [](NoAppendDuringRewrite) /\ [][MutationUnderLock]_vars

\* the outcome of a classified notification from the current state: the order
\* id is the extracted one, else the cached one, else the update is queued
\* under a fresh placeholder with one record in list (the account's pending
\* list before) and rec (the list after), no gateway call being made
ResolvedInOrder(R, message, new_status, a, ids, list, rec) ==
    LET extracted == extract_order_id(message)
        found     == _lookup_order_id_by_message(chat_order_map[a], ids, now)
        temp      == FreshTemp(Cur)
    IN IF extracted # None
       THEN /\ Len(R.S.calls) = 1 /\ R.S.calls[1].order_id = extracted
            /\ R.S.cache[a] = _store_chat_order_mapping(chat_order_map[a], extracted,
                                                        ids, now)
            /\ \A id \in TempIds : R.S.pend[id] = pending_updates[id]
            /\ rec = list
       ELSE IF found.order_id # None
       THEN /\ Len(R.S.calls) = 1 /\ R.S.calls[1].order_id = found.order_id
            /\ \A id \in TempIds : R.S.pend[id] = pending_updates[id]
            /\ rec = list
       ELSE /\ R.S.calls = <<>>
            /\ pending_updates[temp] = <<>>
            /\ R.S.pend = [pending_updates EXCEPT ![temp] =
                              <<[new_status |-> new_status, cookie_id |-> a,
                                 timestamp |-> now]>>]
            /\ Len(rec) = Len(list) + 1
            /\ SubSeq(rec, 1, Len(list)) = list
            /\ rec[Len(rec)].temp_order_id = temp
            /\ rec[Len(rec)].new_status = new_status

\* C21: for a classified notification the order id is the one extracted from
\* the payload; only when there is none, the one the account's cache holds
\* for the payload's identifiers; only when there is none either, the update
\* is queued under a fresh placeholder with one pending-notification record
\* for the account, without a gateway call.  With an extracted id the cache
\* is not consulted and no placeholder is made.
C21_ResolutionOrder ==
    \A a \in Accounts, gw \in GatewayOutcomes :
        /\ \A s \in Samples :
            \A ids \in Orderings(_extract_chat_identifiers(s.message)) :
                SampleStatus[s] # None =>
                    ResolvedInOrder(
                        handle_system_message(Cur, s.message, s.send_message, a, ids,
                                              <<gw>>, now),
                        s.message, SampleStatus[s], a, ids,
                        pending_system_messages[a],
                        handle_system_message(Cur, s.message, s.send_message, a, ids,
                                              <<gw>>, now).S.sys[a])
        /\ \A s \in RedSamples :
            \A ids \in Orderings(_extract_chat_identifiers(s.message)) :
                s.red_reminder = RedReminderClosed =>
                    ResolvedInOrder(
                        handle_red_reminder_message(Cur, s.message, s.red_reminder, a,
                                                    ids, <<gw>>, now),
                        s.message, "cancelled", a, ids,
                        pending_red_reminder_messages[a],
                        handle_red_reminder_message(Cur, s.message, s.red_reminder, a,
                                                    ids, <<gw>>, now).S.red[a])

\* C24 as stated, for the oldest record of the system list: when
\* on_order_id_extracted runs without a message and the gateway succeeds, the
\* oldest record is removed, its status is the persisted status of the
\* resolved order (the status before a withdrawn refund, for
\* refund_cancelled) and its placeholder's queue is gone.
C24_SelectedCommitted ==
    \A a \in Accounts, o \in OrderIds :
        pending_system_messages[a] # <<>> =>
            LET R   == on_order_id_extracted(Cur, o, a, NoMessage, <<>>, <<GwOk, GwOk>>, now)
                rec == pending_system_messages[a][1]
            IN /\ R.S.sys[a] = Tail(pending_system_messages[a])
               /\ R.S.db[o] = ResolvedStatus(order_status_history[o], db[o], rec.new_status)
               /\ R.S.pend[rec.temp_order_id] = <<>>

\* the samples that are deferred when the cache holds nothing for them
DeferredSamples ==
    {s \in Samples : /\ SampleStatus[s] # None
                     /\ extract_order_id(s.message) = None
                     /\ s.message.hashable}

\* the messages the resolution hook is called with
ResolutionMessages == HookMessages \cup {s.message : s \in DeferredSamples}

\* on_order_id_extracted(o, a, m) with result R, run in memory S1 where list is
\* the account's pending list, left as rest: the record taken is the newest
\* whose hash is m's, the oldest when there is none or no message; it is
\* removed, its placeholder's queue deleted and the others' kept; its status
\* is passed once to update_order_status for o, which commits it when the
\* order is stored, the transition allowed and the write successful, queues
\* it under o when the order is not stored, and otherwise changes nothing.
\* With a message that cannot be hashed the hook raises and removes nothing.
SelectedAndApplied(S1, list, R, rest, o, m, gw) ==
    IF m # NoMessage /\ ~m.hashable
    THEN /\ R.ret = "raised"
         /\ rest = list
         /\ R.S.pend = S1.pend /\ R.S.db = S1.db /\ R.S.hist = S1.hist
         /\ R.S.calls = <<>>
    ELSE \E k \in DOMAIN list :
         LET hits == {i \in DOMAIN list :
                         m # NoMessage /\ list[i].message_hash = MessageHash(m)}
             rec  == list[k]
             c    == R.S.calls[1]
         IN /\ IF hits = {} THEN k = 1
               ELSE k \in hits /\ \A i \in hits : i <= k
            /\ R.ret = "None"
            /\ rest = RemoveAt(list, k)
            /\ R.S.pend[rec.temp_order_id] = <<>>
            /\ \A j \in DOMAIN list :
                  list[j].temp_order_id # rec.temp_order_id =>
                      R.S.pend[list[j].temp_order_id] = S1.pend[list[j].temp_order_id]
            /\ Len(R.S.calls) = 1
            /\ c.order_id = o /\ c.requested = rec.new_status
            /\ c.current # None => c.current = S1.db[o]
            /\ c.outcome = "committed" <=>
                   /\ gw \in GatewaySucceeds
                   /\ c.current \notin {None, Absent, rec.new_status}
                   /\ _is_valid_status_transition(c.current, rec.new_status)
            /\ c.outcome = "committed" =>
                   /\ R.S.db[o] = ResolvedStatus(S1.hist[o], c.current, rec.new_status)
                   /\ R.S.hist[o] # S1.hist[o]
            /\ c.outcome = "deferred" <=>
                   gw.get_fails < max_retries /\ c.current = Absent
            /\ c.outcome = "deferred" =>
                   /\ R.S.pend[o] # <<>>
                   /\ R.S.pend[o][Len(R.S.pend[o])].new_status = rec.new_status
            /\ c.outcome \notin {"committed", "deferred"} =>
                   /\ R.S.db = S1.db /\ R.S.hist = S1.hist
                   /\ R.S.pend[o] = S1.pend[o]

\* C24: from a state with one pending notification of an account, after a
\* second notification without an order id is deferred for the account,
\* on_order_id_extracted takes from the list the newest record whose hash is
\* that of the hook's message, or the oldest when no hash matches or there is
\* no message; it removes that record and the queue of its placeholder and
\* passes the record's status once to update_order_status for the resolved
\* order id.  The same holds for the list of red reminders.  The account's
\* other list is empty, so that the hook makes this one call.
C24_SelectedByHash ==
    \A a \in Accounts, o \in OrderIds, m \in ResolutionMessages, gw \in GatewayOutcomes :
        \A ids \in Orderings(IF m = NoMessage THEN {} ELSE _extract_chat_identifiers(m)) :
            /\ \A s \in DeferredSamples :
                \A ids2 \in Orderings(_extract_chat_identifiers(s.message)) :
                    LET S1 == handle_system_message(Cur, s.message, s.send_message, a,
                                                    ids2, <<gw>>, now).S
                        R  == on_order_id_extracted(S1, o, a, m, ids, <<gw>>, now)
                    IN (/\ Len(pending_system_messages[a]) = 1
                        /\ Len(S1.sys[a]) = 2
                        /\ S1.red[a] = <<>>) =>
                           SelectedAndApplied(S1, S1.sys[a], R, R.S.sys[a], o, m, gw)
            /\ \A s \in DeferredSamples :
                \A ids2 \in Orderings(_extract_chat_identifiers(s.message)) :
                    LET S1 == handle_red_reminder_message(Cur, s.message, RedReminderClosed,
                                                          a, ids2, <<gw>>, now).S
                        R  == on_order_id_extracted(S1, o, a, m, ids, <<gw>>, now)
                    IN (/\ Len(pending_red_reminder_messages[a]) = 1
                        /\ Len(S1.red[a]) = 2
                        /\ S1.sys[a] = <<>>) =>
                           SelectedAndApplied(S1, S1.red[a], R, R.S.red[a], o, m, gw)

\* an account with a pending withdrawn-refund card and a stored order in
\* pending_ship: after "you have shipped" is deferred too, the hook called
\* with the card takes the older record by its hash and leaves the newer,
\* and called with the shipped payload takes the newer and commits shipped
C24_Witness ==
    \E a \in Accounts, o \in OrderIds :
        /\ Len(pending_system_messages[a]) = 1
        /\ pending_system_messages[a][1].message_hash = MessageHash(WithdrawnCard(None, {}))
        /\ db[o] = "pending_ship"
        /\ LET S1 == handle_system_message(Cur, Plain(None, {ChatA}, TRUE), MsgShipped, a,
                                           <<ChatA>>, <<GwOk>>, now).S
               R1 == on_order_id_extracted(S1, o, a, WithdrawnCard(None, {}), <<>>,
                                           <<GwOk>>, now)
               R2 == on_order_id_extracted(S1, o, a, Plain(None, {ChatA}, TRUE), <<ChatA>>,
                                           <<GwOk>>, now)
           IN /\ Len(S1.sys[a]) = 2
              /\ R1.S.sys[a] = <<S1.sys[a][2]>>
              /\ R2.S.sys[a] = <<S1.sys[a][1]>>
              /\ R2.S.db[o] = "shipped"
              /\ R2.S.pend[S1.sys[a][2].temp_order_id] = <<>>
              /\ R2.S.pend[S1.sys[a][1].temp_order_id] # <<>>

\* the memory after a second update of order o to new_status is deferred and
\* the main program then stores the order with status stored
QueuedThenStored(o, new_status, a, stored) ==
    LET S1 == update_order_status(Cur, o, new_status, a, <<GwOk>>, now)
    IN [S1 EXCEPT !.db[o] = stored, !.calls = <<>>]

\* C26: on_order_details_fetched for a stored order with queued updates
\* removes the order's whole list and passes its updates to
\* update_order_status in the order they were queued, each call reading the
\* status the previous one left; afterwards the queue holds nothing for the
\* order.  Checked on queues of two updates, built from each reachable state
\* where one update waits for an order not stored yet.
C26_PersistedDrainsInOrder ==
    \A o \in OrderIds, a \in Accounts, s \in status_mapping,
       stored \in InitialStatuses, gws \in Gws(2) :
        (Len(pending_updates[o]) = 1 /\ db[o] = Absent) =>
            LET S2    == QueuedThenStored(o, s, a, stored)
                queue == S2.pend[o]
                S     == on_order_details_fetched(S2, o, gws, now)
                c1    == S.calls[1]
                c2    == S.calls[2]
            IN /\ Len(queue) = 2
               /\ queue[1] = pending_updates[o][1]
               /\ queue[2].new_status = s
               /\ S.pend[o] = <<>>
               /\ \A id \in AllIds \ {o} : S.pend[id] = pending_updates[id]
               /\ Len(S.calls) = 2
               /\ c1.order_id = o /\ c1.requested = queue[1].new_status
               /\ c2.order_id = o /\ c2.requested = queue[2].new_status
               /\ c1.current \in {None, stored}
               /\ c2.current \in {None, IF c1.outcome = "committed" THEN c1.written
                                        ELSE stored}
               /\ S.db[o] = IF c2.outcome = "committed" THEN c2.written
                            ELSE IF c1.outcome = "committed" THEN c1.written
                            ELSE stored
               /\ \A i \in 1..2 :
                     S.calls[i].outcome = "committed" <=>
                         /\ gws[i] \in GatewaySucceeds
                         /\ ~SameStatus(S.calls[i].current, queue[i].new_status)
                         /\ _is_valid_status_transition(S.calls[i].current,
                                                        queue[i].new_status)

\* refunding waits for an order not stored yet: with completed queued after
\* it and the order stored as shipped, the hook commits refunding and then
\* completed, which shipped -> completed -> refunding would not have ended in
C26_Witness ==
    \E o \in OrderIds, a \in Accounts :
        /\ db[o] = Absent
        /\ Len(pending_updates[o]) = 1
        /\ pending_updates[o][1].new_status = "refunding"
        /\ LET S2 == QueuedThenStored(o, "completed", a, "shipped")
               S  == on_order_details_fetched(S2, o, <<GwOk, GwOk>>, now)
           IN /\ S.pend[o] = <<>>
              /\ S.db[o] = "completed"
              /\ S.hist[o] = <<HistoryEntry("shipped", "refunding"),
                               HistoryEntry("refunding", "completed")>>

\* the retention periods the sweep is asked for: the configured one and some hours
SweepAges == {<<>>} \cup {<<h>> : h \in {0, 10, 12, 25}}

MaxAge(max_age_hours) ==
    IF max_age_hours = <<>> THEN max_pending_age_hours ELSE max_age_hours[1]

\* the memory after one more update of order o is deferred and one more
\* notification without an order id arrives for account a, both now
OneMoreDeferred(o, a) ==
    LET S1 == update_order_status(Cur, o, "shipped", a, <<GwOk>>, now)
    IN handle_system_message([S1 EXCEPT !.calls = <<>>], WithdrawnCard(None, {}), NoText,
                             a, <<>>, <<GwOk>>, now).S

\* after holds, in the order of before, the entries of before that satisfy
\* keep, and no other
SweptTo(before, after, keep(_)) ==
    LET rank(i) == Cardinality({j \in 1..i : keep(before[j])})
    IN /\ Len(after) = rank(Len(before))
       /\ \A i \in DOMAIN before : keep(before[i]) => after[rank(i)] = before[i]

\* sweep(max_age) at time t leaves S1 as S: of every queue and every list of
\* records the entries selected by keep stay and the others go; statuses,
\* history and cache are as before
Swept(S1, S, keep(_)) ==
    /\ \A id \in AllIds : SweptTo(S1.pend[id], S.pend[id], keep)
    /\ \A a \in Accounts : /\ SweptTo(S1.sys[a], S.sys[a], keep)
                           /\ SweptTo(S1.red[a], S.red[a], keep)
    /\ S.db = S1.db /\ S.hist = S1.hist /\ S.cache = S1.cache

\* C27 as stated: the sweep removes the updates older than max_age and keeps
\* those not older, removes the record of each placeholder whose update it
\* removes, and leaves statuses, history and cache alone.
C27_SweptOlderOnly ==
    \A h \in SweepAges \ {<<0>>}, o \in OrderIds, a \in Accounts :
        LET S1 == OneMoreDeferred(o, a)
            S  == clear_old_pending_updates(S1, h, now)
            keep(e) == now - e.timestamp <= MaxAge(h)
        IN /\ \A id \in AllIds : SweptTo(S1.pend[id], S.pend[id], keep)
           /\ \A b \in Accounts : \A i \in DOMAIN S.sys[b] :
                 S1.pend[S.sys[b][i].temp_order_id] # <<>> =>
                     S.pend[S.sys[b][i].temp_order_id] # <<>>
           /\ S.db = S1.db /\ S.hist = S1.hist /\ S.cache = S1.cache

\* C27: the sweep removes from every queue the updates whose age is at least
\* max_age and keeps the younger ones in their order; it does the same, by
\* their own timestamps, with the pending-notification records of every
\* account; it changes no persisted status, no history and no cache.
\* Checked on queues and lists that hold entries of different ages.
C27_SweepByAge ==
    \A h \in SweepAges, o \in OrderIds, a \in Accounts :
        LET S1 == OneMoreDeferred(o, a)
            keep(e) == now - e.timestamp < MaxAge(h)
        IN /\ Swept(Cur, clear_old_pending_updates(Cur, h, now), keep)
           /\ Swept(S1, clear_old_pending_updates(S1, h, now), keep)

\* an update and a record exactly 10 hours old, with a younger update and a
\* younger record behind them: sweep(10) removes the old and keeps the young
C27_Witness ==
    \E o \in OrderIds, a \in Accounts :
        /\ Len(pending_updates[o]) = 1
        /\ now - pending_updates[o][1].timestamp = 10
        /\ LET S1 == OneMoreDeferred(o, a)
               S  == clear_old_pending_updates(S1, <<10>>, now)
           IN /\ Len(S1.pend[o]) = 2
              /\ S.pend[o] = <<S1.pend[o][2]>>
              /\ Len(S.sys[a]) = 1
              /\ S.sys[a][1].timestamp = now

\* the conversation identifiers of the payloads looked up: those of
\* CacheChats, and a payload that carries two conversation identifiers
LookupChats == CacheChats \cup {{Ident(1, ""), Ident(101, "")}}

\* the cache holds, under the key ids[k], an entry that is not expired at t
LiveHit(mapping, ids, k, t) ==
    \E i \in DOMAIN mapping : mapping[i].key = ids[k] /\ ~Expired(mapping[i], t)

\* C28: after a lookup, whether it returned an order id or none, the
\* account's cache holds no expired entry under an identifier of the payload
\* that the lookup examined (every identifier up to the one that hit, or all
\* of them when none did).
C28_LookupPurgesExamined ==
    \A a \in Accounts, chat \in LookupChats :
        \A ids \in Orderings(_extract_chat_identifiers(Plain(None, chat, TRUE))) :
            LET R == _lookup_order_id_by_message(chat_order_map[a], ids, now)
            IN \A k \in DOMAIN ids :
                  (\A j \in 1..(k - 1) : ~LiveHit(chat_order_map[a], ids, j, now)) =>
                      \A i \in DOMAIN R.mapping :
                          R.mapping[i].key = ids[k] => ~Expired(R.mapping[i], now)

\* C29: _store_chat_order_mapping first drops the expired entries of the
\* account's cache, then, when the cache is full, evicts entries oldest
\* first, then inserts: afterwards no entry of the cache is expired, no entry
\* that stayed is older than an evicted one, every entry that stayed is
\* unchanged, and every identifier of the payload maps to the order id with
\* the current time.
C29_RememberPurgesEvictsInserts ==
    \A a \in Accounts, o \in OrderIds, chat \in LookupChats :
        \A ids \in Orderings(_extract_chat_identifiers(Plain(o, chat, TRUE))) :
            LET before   == chat_order_map[a]
                after    == _store_chat_order_mapping(before, o, ids, now)
                inserted == {ids[k] : k \in DOMAIN ids}
                keys     == {after[i].key : i \in DOMAIN after}
                live     == {i \in DOMAIN before : ~Expired(before[i], now)}
                evicted  == {i \in live : before[i].key \notin keys}
                stayed   == {i \in live : /\ before[i].key \in keys
                                          /\ before[i].key \notin inserted}
            IN /\ \A i \in DOMAIN after : ~Expired(after[i], now)
               /\ \A k \in DOMAIN ids :
                     [key |-> ids[k], order_id |-> o, timestamp |-> now]
                         \in {after[i] : i \in DOMAIN after}
               /\ Cardinality(keys) = Len(after)
               /\ {after[i] : i \in {j \in DOMAIN after : after[j].key \notin inserted}}
                      \subseteq {before[j] : j \in live}
               /\ \A te \in {before[e].timestamp : e \in evicted},
                     ts \in {before[r].timestamp : r \in stayed} : ts >= te
               /\ evicted # {} => Cardinality(live) >= _chat_order_map_max_size

\* a full cache with entries of hour 0 and a younger one: remembering a new
\* conversation evicts an entry of hour 0 and keeps the younger entry
C29_Witness ==
    \E a \in Accounts, o \in OrderIds :
        LET before == chat_order_map[a]
            after  == _store_chat_order_mapping(before, o, <<Ident(2, "@"), Ident(2, "")>>, now)
        IN /\ Len(before) = _chat_order_map_max_size
           /\ \E i \in DOMAIN before : before[i].timestamp > 0 /\ ~Expired(before[i], now)
                                       /\ before[i].key = Ident(1, "")
                                       /\ \E j \in DOMAIN after : after[j] = before[i]
           /\ \E i \in DOMAIN before :
                 /\ before[i].timestamp = 0 /\ ~Expired(before[i], now)
                 /\ \A j \in DOMAIN after : after[j].key # before[i].key
           /\ \E j \in DOMAIN after : after[j].key = Ident(2, "") /\ after[j].timestamp = now

\* log is the last HistoryCap entries of full, in their order
LastOf(log, full) ==
    /\ Len(log) = IF Len(full) <= HistoryCap THEN Len(full) ELSE HistoryCap
    /\ \A i \in DOMAIN log : log[i] = full[Len(full) - Len(log) + i]

\* C30: the history of every order holds at most HistoryCap (10) entries; an
\* update_order_status call whose gateway write reported success appends
\* one entry, after which the log is the last 10 of the entries so far in
\* the order they were appended; a call without a successful gateway write
\* leaves the log as it is.
C30_HistoryBounded ==
    /\ \A o \in OrderIds : Len(order_status_history[o]) <= HistoryCap
    /\ \A o \in OrderIds, s \in status_mapping \cup {LegacyStatus}, a \in Accounts,
          gw \in GatewayOutcomes :
          db[o] # Absent =>
              LET S == update_order_status(Cur, o, s, a, <<gw>>, now)
                  c == S.calls[1]
                  written == /\ c.written # None
                             /\ gw.put_fails < max_retries
                             /\ gw.put_ret
              IN /\ written =>
                     LastOf(S.hist[o],
                            Append(order_status_history[o],
                                   HistoryEntry(c.current, c.written)))
                 /\ ~written => S.hist[o] = order_status_history[o]
                 /\ \A p \in OrderIds \ {o} : S.hist[p] = order_status_history[p]

\* a log of 10 entries: one more successful update drops the oldest entry
C30_Witness ==
    \E o \in OrderIds, a \in Accounts :
        /\ Len(order_status_history[o]) = HistoryCap
        /\ db[o] = "refunding"
        /\ LET S == update_order_status(Cur, o, "completed", a, <<GwOk>>, now)
           IN /\ Len(S.hist[o]) = HistoryCap
              /\ S.hist[o] = Tail(order_status_history[o])
                                 \o <<HistoryEntry("refunding", "completed")>>
              /\ S.hist[o][1] # order_status_history[o][1]

\* the step is one of worker w
StepOf(w) == threads'[w] # threads[w]

\* the step empties the queue of some id
QueuePopped == \E id \in AllIds : pending_updates[id] # <<>> /\ pending_updates'[id] = <<>>

\* worker w is in a drain, with the list of an id popped
Draining(w) == threads[w].order_ids # <<>> /\ threads[w].updates # <<>>

\* C22: in a drain the queued entries are copied and removed by a thread
\* that holds the lock, and the gateway write that applies one of them is
\* made by the draining thread while it does not hold the lock.
C22_DrainAppliesOutsideLock ==
    [][\A w \in Workers :
          /\ (StepOf(w) /\ QueuePopped) => lock = w
          /\ (StepOf(w) /\ Draining(w) /\ db' # db) => lock # w]_vars

\* each entry of order_status_history follows the one before it, and the
\* last one ends in the persisted status
Chained(o) ==
    LET h == order_status_history[o]
    IN /\ \A i \in 1..(Len(h) - 1) : h[i + 1].from_status = h[i].to_status
       /\ h # <<>> => h[Len(h)].to_status = db[o]

\* C23: of the update_order_status calls of concurrent threads for one
\* order, at most one is between its read of the persisted status and its
\* write; the status it read and checked is still the persisted one when it
\* writes; so every history entry starts from the status the entry before
\* it ended in, and no two commits start from the same read.
C23_OneMutationInFlight ==
    /\ \A w, v \in Workers :
          (/\ threads[w].pc = "write" /\ threads[v].pc = "write"
           /\ threads[w].order_id = threads[v].order_id) => w = v
    /\ \A w \in Workers :
          threads[w].pc = "write" =>
              /\ lock = w
              /\ threads[w].current = db[threads[w].order_id]
    /\ \A o \in OrderIds : Chained(o)

\* one worker is about to write for an order while the other waits to read
\* the same order, for an update the persisted status allows as well
C23_Witness ==
    \E w, v \in Workers :
        /\ w # v
        /\ threads[w].pc = "write" /\ threads[v].pc = "update"
        /\ threads[w].order_id = threads[v].order_id
        /\ lock = w
        /\ threads[w].gw \in GatewaySucceeds
        /\ _is_valid_status_transition(db[threads[w].order_id],
                                       Head(threads[v].updates).new_status)
        /\ ~SameStatus(db[threads[w].order_id], Head(threads[v].updates).new_status)

\* how often status s occurs among the updates queued and those held by workers
Occurrences(s) ==
    LET ids == SeqOfSet(AllIds)
        ws  == SeqOfSet(Workers)
        InList(list) == Cardinality({i \in DOMAIN list : list[i].new_status = s})
        Q[i \in 0..Len(ids)] ==
            IF i = 0 THEN 0 ELSE Q[i - 1] + InList(pending_updates[ids[i]])
        W[i \in 0..Len(ws)] ==
            IF i = 0 THEN 0 ELSE W[i - 1] + InList(threads[ws[i]].updates)
    IN Q[Len(ids)] + W[Len(ws)]

\* a step that takes an update out of a queue empties that queue and hands
\* its whole list to one worker, which held none
HandedToOne ==
    \A id \in AllIds :
        (\E i \in DOMAIN pending_updates[id] :
            \A j \in DOMAIN pending_updates'[id] :
                pending_updates'[id][j] # pending_updates[id][i]) =>
            /\ pending_updates'[id] = <<>>
            /\ \E w \in Workers :
                  /\ threads[w].updates = <<>>
                  /\ threads'[w].updates = pending_updates[id]
                  /\ \A v \in Workers \ {w} : threads'[v] = threads[v]

Normalized(send_message) ==
    Strip(StripChars(StripChars(Strip(send_message), {"[", "]"}), {"[[", "]]"}))

KeywordRules == 1..8

\* the n-th test of _infer_status_from_message on the normalized text, in
\* the order of the source
KeywordRule(n, normalized) ==
    CASE n = 1 ->
            \/ AnyIn({<<"tui", "kuan", "cheng", "gong">>, <<"tui", "huo", "cheng", "gong">>,
                      <<"tui", "huo", "tui", "kuan", "cheng", "gong">>}, normalized)
            \/ AnyIn({<<"qian", "kuan", "yi3", "yuan", "lu", "tui", "fan">>,
                      <<"qian", "kuan", "yi3", "tui", "hui">>,
                       <<"kuan", "xiang", "yi3", "tui", "hui">>,
                        <<"jiao", "yi4e", "cheng", "gong", ",", "yi3", "tui", "kuan">>,
                         <<"jiao", "yi4e", "guan", "bi", ",", "yi3", "tui", "kuan">>},
                     normalized)
      [] n = 2 ->
            /\ Contains(normalized, <<"yi3", "tui", "kuan">>)
            /\ AnyIn({<<"jiao", "yi4e", "cheng", "gong">>,
                      <<"jiao", "yi4e", "guan", "bi">>}, normalized)
      [] n = 3 ->
            /\ (Contains(normalized, KwRefundRequest) \/ Contains(normalized, KwReturnRequest))
            /\ AnyIn({<<"yi3", "tong2", "yi4">>, <<"tong2", "yi4", "le">>,
                      <<"tong1", "guo", "le">>, <<"tong2", "yi4", "tui", "kuan">>,
                       <<"tong2", "yi4", "tui", "huo">>}, normalized)
      [] n = 4 ->
            /\ (Contains(normalized, KwRefundRequest) \/ Contains(normalized, KwReturnRequest))
            /\ AnyIn({<<"yi3", "che", "xiao_k">>, <<"che", "xiao_k", "le">>,
                      <<"qu", "xiao", "le">>, <<"yi3", "qu", "xiao">>}, normalized)
      [] n = 5 ->
            AnyIn({<<"mai", "jia", "yi3", "fu", "kuan">>, <<"fu", "kuan", "wan", "cheng">>,
                   <<"yi3", "fu", "kuan">>, <<"deng", "dai", "ni", "fa", "huo">>,
                    <<"dai", "fa", "huo">>}, normalized)
      [] n = 6 ->
            AnyIn({<<"ni", "yi3", "fa", "huo">>, <<"yi3", "fa", "huo">>,
                   <<"deng", "dai", "mai", "jia", "que", "ren", "shou", "huo">>}, normalized)
      [] n = 7 ->
            AnyIn({<<"que", "ren", "shou", "huo">>,
                   <<"jiao", "yi4e", "cheng", "gong">>}, normalized)
      [] n = 8 ->
            AnyIn({<<"jiao", "yi4e", "guan", "bi">>,
                   <<"guan", "bi", "le", "ding", "dan">>}, normalized)

\* the status the n-th test returns
KeywordRuleStatus ==
    <<"cancelled", "cancelled", "refunding", "refund_cancelled", "pending_ship",
      "shipped", "completed", "cancelled">>

\* the tests the text passes
KeywordMatches(send_message) ==
    IF send_message = NoText THEN {}
    ELSE {n \in KeywordRules : KeywordRule(n, Normalized(send_message))}

\* the status of the first test the text passes, None when it passes none
KeywordStatus(send_message) ==
    IF KeywordMatches(send_message) = {} THEN None
    ELSE KeywordRuleStatus[CHOOSE n \in KeywordMatches(send_message) :
                               \A k \in KeywordMatches(send_message) : n <= k]

\* what each heuristic alone says, in the order of priority
Heuristics(message, send_message) ==
    <<_check_refund_message(message), message_status_mapping(send_message),
      KeywordStatus(send_message), _infer_status_from_task_name(message)>>

\* the first heuristic with a status, 0 when none has one
FirstMatch(message, send_message) ==
    LET H == Heuristics(message, send_message)
        hits == {i \in DOMAIN H : H[i] # None}
    IN IF hits = {} THEN 0 ELSE CHOOSE i \in hits : \A k \in hits : i <= k

\* 已付款，交易成功 / 已发货，确认收货 / 交易成功，交易关闭
TextPaidAndSuccessful == <<"yi3", "fu", "kuan", ",", "jiao", "yi4e", "cheng", "gong">>
TextShippedAndReceived == <<"yi3", "fa", "huo", ",", "que", "ren", "shou", "huo">>
TextSuccessfulAndClosed == <<"jiao", "yi4e", "cheng", "gong", ",", "jiao", "yi4e", "guan", "bi">>
\* 退款申请已同意，已撤销 / 退款成功，已付款 / 已退款，交易成功
TextAgreedAndWithdrawn ==
    <<"tui", "kuan", "shen", "qing", "yi3", "tong2", "yi4", ",", "yi3", "che", "xiao_k">>
TextRefundedAndPaid == <<"tui", "kuan", "cheng", "gong", ",", "yi3", "fu", "kuan">>
TextRefundedSuccessful == <<"yi3", "tui", "kuan", ",", "jiao", "yi4e", "cheng", "gong">>
\* 退款申请已撤销
TextRequestWithdrawn == <<"tui", "kuan", "shen", "qing", "yi3", "che", "xiao_k">>
\* 退款成功 / 申请退款
TipRefundDone == <<"tui", "kuan", "cheng", "gong">>
TaskRefundRequested == <<"shen", "qing", "tui", "kuan">>

\* payloads naming order o: without card texts, with a refund tip, with the
\* withdrawn card, with a task name
Tipped(o) == Payload(o, {}, TRUE, TipRefundDone, NoText, NoText, NoText, TRUE)
Tasked(o) == Payload(o, {}, TRUE, NoText, NoText, NoText, TaskRefundRequested, TRUE)

\* notifications about order o on which the heuristics and the keyword
\* tests overlap, and such that pass one only, or none
PriorityInputs(o) ==
    {Sample(Tipped(o), t) : t \in {MsgShippedBracket, TextPaidAndSuccessful, TextHello}}
    \cup {Sample(WithdrawnCard(o, {}), t) : t \in {MsgOrdered, TextShippedAndReceived}}
    \cup {Sample(Payload(o, {}, TRUE, TipRefundDone, NoText, NoText, TaskRefundRequested,
                         TRUE), NoText)}
    \cup {Sample(Tasked(o), t) :
              t \in {MsgOrdered, MsgShippedBracket, TextShippedAndReceived,
                     RedReminderClosed, TextHello, NoText}}
    \cup {Sample(Plain(o, {}, TRUE), t) :
              t \in {MsgOrdered, MsgShippedBracket, TextPaidAndSuccessful,
                     TextShippedAndReceived, TextSuccessfulAndClosed,
                     TextAgreedAndWithdrawn, TextRequestWithdrawn, TextRefundedAndPaid,
                     TextRefundedSuccessful, RedReminderClosed, TextHello, NoText}}

\* C31: handle_system_message asks for the status of the first heuristic
\* that has one, in the order refund check, exact-match table, keyword
\* inference, task-name inference, and within keyword inference for the
\* status of the first test the text passes; whatever the later heuristics
\* and tests say.  Checked on payloads that name an order, so that the status
\* asked for is the one passed to update_order_status.
C31_FirstMatchWins ==
    \A o \in OrderIds, a \in Accounts :
        \A s \in PriorityInputs(o) :
            LET R == handle_system_message(Cur, s.message, s.send_message, a, <<>>,
                                           <<GwOk>>, now)
                i == FirstMatch(s.message, s.send_message)
            IN IF i = 0
               THEN R.ret = "False" /\ R.S.calls = <<>>
               ELSE /\ R.ret = "True"
                    /\ Len(R.S.calls) = 1
                    /\ R.S.calls[1].requested = Heuristics(s.message, s.send_message)[i]

\* an order is stored, and a notification with a refund tip and a text of
\* the table commits the tip's status, while a text of two keyword tests
\* (paid, successful) commits pending_ship
C31_Witness ==
    \E o \in OrderIds, a \in Accounts :
        LET R1 == handle_system_message(Cur, Tipped(o), MsgShippedBracket, a, <<>>,
                                        <<GwOk>>, now)
            R2 == handle_system_message(Cur, Plain(o, {}, TRUE), TextPaidAndSuccessful,
                                        a, <<>>, <<GwOk>>, now)
        IN /\ db[o] = "processing"
           /\ message_status_mapping(MsgShippedBracket) = "shipped"
           /\ R1.S.db[o] = "cancelled"
           /\ KeywordMatches(TextPaidAndSuccessful) = {5, 7}
           /\ R2.S.db[o] = "pending_ship"
           /\ \A i \in 0..4 : \E s \in PriorityInputs(o), k \in i..4 :
                  /\ FirstMatch(s.message, s.send_message) = i
                  /\ i \in 1..3 => k > i /\ Heuristics(s.message, s.send_message)[k] # None
           /\ \A n \in KeywordRules : \E s \in PriorityInputs(o) :
                  /\ FirstMatch(s.message, s.send_message) = 3
                  /\ n \in KeywordMatches(s.send_message)
                  /\ \A k \in KeywordMatches(s.send_message) : n <= k
           /\ \E s \in PriorityInputs(o) : Cardinality(KeywordMatches(s.send_message)) > 1

(***************************************************************************)
(* C32.  Notifications that are not recognised.                            *)
(***************************************************************************)
\* payloads with an order id, with a conversation identifier only, with
\* neither, and one whose items cannot be sorted
AnyPayloads ==
    {Plain(o, {ChatA}, TRUE) : o \in OrderIds}
    \cup {Plain(None, {ChatA}, TRUE), Plain(None, {}, TRUE), Plain(None, {}, FALSE)}

\* 订单 (a task name no test passes)
TaskOrder == <<"ding", "dan">>

\* notifications no heuristic has a status for
Unrecognised ==
    {s \in {Sample(m, t) : m \in AnyPayloads, t \in {TextHello, NoText}}
           \cup {Sample(Payload(o, {ChatA}, TRUE, TextHello, TextHello, KwAgreed,
                                TaskOrder, TRUE), TextHello) : o \in OrderIds} :
        classify(s.message, s.send_message) = None}

\* banners other than 交易关闭: none, another text, and the text in
\* brackets, after a blank, and followed by 了
OtherReminders ==
    {NoText, TextHello, <<"[">> \o RedReminderClosed \o <<"]">>,
     <<" ">> \o RedReminderClosed, RedReminderClosed \o <<"le">>}

\* C32: in every state, handle_system_message for a notification no heuristic
\* recognises, and handle_red_reminder_message for a banner that is not
\* exactly 交易关闭, return False, call update_order_status not at all (so no
\* gateway call) and leave statuses, history, pending updates, both lists of
\* pending notifications and the cache as they were.
C32_UnrecognisedIgnored ==
    \A a \in Accounts, gw \in GatewayOutcomes :
        /\ \A s \in Unrecognised :
               \A ids \in Orderings(_extract_chat_identifiers(s.message)) :
                   LET R == handle_system_message(Cur, s.message, s.send_message, a, ids,
                                                  <<gw>>, now)
                   IN R.ret = "False" /\ R.S = Cur
        /\ \A m \in AnyPayloads, red_reminder \in OtherReminders :
               \A ids \in Orderings(_extract_chat_identifiers(m)) :
                   LET R == handle_red_reminder_message(Cur, m, red_reminder, a, ids,
                                                        <<gw>>, now)
                   IN R.ret = "False" /\ R.S = Cur

\* an order is stored and shipped, the cache holds a conversation, an update
\* is queued for a notification without an order id: the same payload is
\* acted upon with a recognised text and ignored with an unrecognised one
C32_Witness ==
    \E o \in OrderIds, a \in Accounts :
        LET m == Plain(o, {ChatA}, TRUE)
        IN /\ db[o] = "shipped"
           /\ chat_order_map[a] # <<>>
           /\ pending_system_messages[a] # <<>>
           /\ Sample(m, TextHello) \in Unrecognised
           /\ Cardinality(Unrecognised) >= 6
           /\ handle_system_message(Cur, m, TextHello, a, <<ChatA>>, <<GwOk>>, now).S = Cur
           /\ handle_system_message(Cur, m, MsgReceivedByBuyer, a, <<ChatA>>, <<GwOk>>,
                                    now).S.db[o] = "completed"
           /\ handle_red_reminder_message(Cur, m, <<" ">> \o RedReminderClosed, a,
                                          <<ChatA>>, <<GwOk>>, now).S = Cur
           /\ handle_red_reminder_message(Cur, m, RedReminderClosed, a, <<ChatA>>,
                                          <<GwOk>>, now).S.db[o] = "cancelled"

(***************************************************************************)
(* C33.  History entries and gateway writes as changes of status.          *)
(***************************************************************************)
\* C33: every entry of every order's history has a from_status different
\* from its to_status, and an update_order_status call in the current state
\* never passes to insert_or_update_order the status it read at its start.
C33_EntriesAreChanges ==
    /\ \A o \in OrderIds : \A i \in DOMAIN order_status_history[o] :
           order_status_history[o][i].from_status # order_status_history[o][i].to_status
    /\ \A o \in OrderIds, s \in status_mapping \cup {LegacyStatus}, a \in Accounts,
          gw \in GatewayOutcomes :
           LET call == update_order_status(Cur, o, s, a, <<gw>>, now).calls[1]
           IN call.written # None => call.written # call.current

(***************************************************************************)
(* C34.  The history of an order as a chain.                               *)
(***************************************************************************)
\* C34: with update_order_status as the only writer of a stored order's
\* status, the last entry of a non-empty history has the order's persisted
\* status as to_status, every entry's from_status is the to_status of the
\* entry before it, and a call that commits leaves as last entry the pair
\* (status before the call, status after the call).
C34_HistoryChain ==
    /\ \A o \in OrderIds :
           LET log == order_status_history[o]
           IN /\ log # <<>> => log[Len(log)].to_status = db[o]
              /\ \A i \in 2..Len(log) : log[i].from_status = log[i - 1].to_status
    /\ \A o \in OrderIds, s \in status_mapping, a \in Accounts, gw \in GatewayOutcomes :
           db[o] # Absent =>
               LET S == update_order_status(Cur, o, s, a, <<gw>>, now)
               IN S.calls[1].outcome = "committed" =>
                      /\ S.hist[o] # <<>>
                      /\ S.hist[o][Len(S.hist[o])] = HistoryEntry(db[o], S.db[o])

\* a full history that went through three statuses or more, whose oldest
\* entry does not start at the status the order was stored with any more,
\* and one more commit
C34_Witness ==
    \E o \in OrderIds, a \in Accounts :
        LET log == order_status_history[o]
            S   == update_order_status(Cur, o, "completed", a, <<GwOk>>, now)
        IN /\ Len(log) = HistoryCap
           /\ Cardinality({log[i].to_status : i \in DOMAIN log}) >= 3
           /\ \E i \in DOMAIN log : log[i].from_status # log[i].to_status
           /\ db[o] = "shipped"
           /\ S.db[o] = "completed"
           /\ S.hist[o][HistoryCap] = HistoryEntry("shipped", "completed")
           /\ S.hist[o][HistoryCap - 1] = log[HistoryCap]

(***************************************************************************)
(* C35.  What on_order_id_extracted removes.                               *)
(***************************************************************************)
\* the replay of the only pending record of account a (list: "sys" or "red")
\* for order o kept the record, or committed its status, or queued it under o
KeptOrApplied(a, o, gw, list) ==
    LET rec  == Cur[list][a][1]
        R    == on_order_id_extracted(Cur, o, a, NoMessage, <<>>, <<gw>>, now)
        call == R.S.calls[1]
        kept == R.S[list][a] = <<rec>> /\ R.S.pend[rec.temp_order_id] # <<>>
    IN /\ R.S[list][a] = <<>> =>
           \/ call.outcome \in {"committed", "noop"}
           \/ call.outcome = "deferred" /\ InQueue(R.S, o, rec.new_status, a)
       /\ call.outcome \in {"invalid", "read_failed", "write_failed", "write_refused"}
              => kept

\* C35: when on_order_id_extracted runs for an account with one pending
\* record, the record leaves its list only if its status was committed to
\* the resolved order (or is the order's status already) or was queued under
\* the resolved order id; when update_order_status rejects the transition or
\* the gateway fails on every attempt, the record and the queue entry of its
\* placeholder are still there.
C35_RemovedOnlyIfApplied ==
    \A a \in Accounts, o \in OrderIds, gw \in GatewayOutcomes :
        /\ (Len(pending_system_messages[a]) = 1 /\ pending_red_reminder_messages[a] = <<>>)
               => KeptOrApplied(a, o, gw, "sys")
        /\ (Len(pending_red_reminder_messages[a]) = 1 /\ pending_system_messages[a] = <<>>)
               => KeptOrApplied(a, o, gw, "red")

(***************************************************************************)
(* C36.  Placeholders and pending records.                                 *)
(***************************************************************************)
\* the pending records of S that name placeholder id, as <<list, account, index>>
RecordsOf(S, id) ==
    {x \in {"sys", "red"} \X Accounts \X (1..MaxPending + 1) :
        /\ x[3] \in DOMAIN S[x[1]][x[2]]
        /\ S[x[1]][x[2]][x[3]].temp_order_id = id}

\* every pending record's placeholder id has a queue of exactly one update,
\* with the record's status and account, and every placeholder id with a
\* non-empty queue is named by exactly one pending record
Paired(S) ==
    /\ \A a \in Accounts, list \in {"sys", "red"} : \A i \in DOMAIN S[list][a] :
           LET rec == S[list][a][i]
               q   == S.pend[rec.temp_order_id]
           IN /\ Len(q) = 1
              /\ q[1].new_status = rec.new_status
              /\ q[1].cookie_id = a
    /\ \A id \in TempIds : S.pend[id] # <<>> => Cardinality(RecordsOf(S, id)) = 1

\* C36: between operations, placeholders and pending records are paired one
\* to one, whatever notifications, red reminders, drains, sweeps and
\* resolutions came before.
C36_PlaceholdersPaired == Paired(Cur)

(***************************************************************************)
(* C37.  Draining the queue of an order the store does not hold.           *)
(***************************************************************************)
\* the statuses and accounts of a list of updates, in order
Targets(updates) ==
    [i \in DOMAIN updates |-> <<updates[i].new_status, updates[i].cookie_id>>]

\* S holds for id the statuses and accounts the current state holds, in the
\* same order, and the same statuses and history
NothingLost(S, id) ==
    /\ Targets(S.pend[id]) = Targets(pending_updates[id])
    /\ S.db = db
    /\ S.hist = order_status_history

\* C37: for an id (of an order or a placeholder) with queued updates whose
\* order the store does not hold, process_pending_updates and
\* process_all_pending_updates leave the id's queue with the same statuses
\* for the same accounts in the same order, count no update as applied, and
\* leave statuses and history unchanged.
C37_AbsentDrainLosesNothing ==
    \A id \in AllIds :
        (pending_updates[id] # <<>> /\ get_order_by_id(Cur, id) = Absent) =>
            /\ \A gws \in Gws(Len(pending_updates[id])) :
                   LET S == process_pending_updates(Cur, id, gws, now)
                   IN NothingLost(S, id) /\ CountOk(S.calls, 1) = 0
            /\ \A gws \in Gws(QueuedCount(Cur)) :
                   LET R == process_all_pending_updates(Cur, gws, now)
                   IN /\ NothingLost(R.S, id)
                      /\ \A i \in DOMAIN R.S.calls :
                             R.S.calls[i].order_id = id => ~R.S.calls[i].ok

(***************************************************************************)
(* C38.  Two accounts.  The reachable states hold one account; a second    *)
(* one, with its own lists and cache, is added to the current state and    *)
(* the handlers are applied to the memory of both.                         *)
(***************************************************************************)
OtherAccount == "acc2"
OtherOrder == "99999"

\* the current memory with the second account: its lists empty, its cache
\* as given
WithOther(cache) ==
    [Cur EXCEPT
        !.sys   = [a \in Accounts \cup {OtherAccount} |->
                      IF a = OtherAccount THEN <<>> ELSE pending_system_messages[a]],
        !.red   = [a \in Accounts \cup {OtherAccount} |->
                      IF a = OtherAccount THEN <<>> ELSE pending_red_reminder_messages[a]],
        !.cache = [a \in Accounts \cup {OtherAccount} |->
                      IF a = OtherAccount THEN cache ELSE chat_order_map[a]]]

\* the notifications without an order id the second account receives
OtherSamples ==
    {Sample(WithdrawnCard(None, {}), NoText), Sample(Plain(None, {}, TRUE), TextRefundAgreed)}

\* the memory after the second account received s and it was deferred
OtherDeferred(s) ==
    [handle_system_message(WithOther(<<>>), s.message, s.send_message, OtherAccount,
                           <<>>, <<GwOk>>, now).S EXCEPT !.calls = <<>>]

\* the memory in which the second account remembered OtherOrder for ChatA
OtherRemembered ==
    WithOther(_store_chat_order_mapping(<<>>, OtherOrder, <<ChatA>>, now))

\* C38: on_order_id_extracted called for an account leaves the pending
\* records of every other account, and the queues of their placeholders, as
\* they are, and replays at most the records of the account it is called
\* for, also when its message is the very payload another account's record
\* was made from; a notification of an account is never resolved to an order
\* id that only another account remembered for the same conversation
\* identifier.
C38_AccountsIsolated ==
    \A a \in Accounts, o \in OrderIds :
        /\ \A s \in OtherSamples, m \in HookMessages \cup {Plain(None, {}, TRUE)},
              gws \in {<<GwOk, GwOk>>} \cup {<<gw, GwOk>> : gw \in GatewayOutcomes} :
               LET S == OtherDeferred(s)
                   R == on_order_id_extracted(S, o, a, m, <<>>, gws, now)
                   temp == S.sys[OtherAccount][1].temp_order_id
               IN /\ Len(S.sys[OtherAccount]) = 1
                  /\ R.S.sys[OtherAccount] = S.sys[OtherAccount]
                  /\ R.S.red[OtherAccount] = S.red[OtherAccount]
                  /\ R.S.pend[temp] = S.pend[temp]
                  /\ R.S.cache[OtherAccount] = S.cache[OtherAccount]
                  /\ Len(R.S.calls) <= (IF S.sys[a] # <<>> THEN 1 ELSE 0)
                                        + (IF S.red[a] # <<>> THEN 1 ELSE 0)
        /\ \A gw \in GatewayOutcomes :
               LET S == OtherRemembered
                   R == handle_system_message(S, Plain(None, {ChatA}, TRUE), MsgShipped, a,
                                              <<ChatA>>, <<gw>>, now)
                   mine == {chat_order_map[a][i].order_id : i \in DOMAIN chat_order_map[a]}
               IN /\ S.cache[OtherAccount] # <<>>
                  /\ \A i \in DOMAIN R.S.calls :
                         R.S.calls[i].order_id # OtherOrder /\ R.S.calls[i].order_id \in mine
                  /\ R.S.cache[OtherAccount] = S.cache[OtherAccount]
                  /\ mine = {} => R.S.calls = <<>> /\ R.S.sys[a] # S.sys[a]

\* the account has a pending record and remembers an order for ChatA, the
\* other account has a record made from the payload the hook is called
\* with and remembers another order for ChatA: the hook takes the account's
\* own record, the notification is resolved to the account's own order
C38_Witness ==
    \E a \in Accounts, o \in OrderIds :
        LET s  == Sample(WithdrawnCard(None, {}), NoText)
            S  == OtherDeferred(s)
            R  == on_order_id_extracted(S, o, a, s.message, <<>>, <<GwOk, GwOk>>, now)
            R2 == handle_system_message(OtherRemembered, Plain(None, {ChatA}, TRUE),
                                        MsgShipped, a, <<ChatA>>, <<GwOk>>, now)
        IN /\ Len(pending_system_messages[a]) = 1
           /\ pending_system_messages[a][1].message_hash # MessageHash(s.message)
           /\ S.sys[OtherAccount][1].message_hash = MessageHash(s.message)
           /\ R.S.sys[a] = <<>>
           /\ R.S.sys[OtherAccount] = S.sys[OtherAccount]
           /\ Len(R.S.calls) = 1
           /\ OtherRemembered.cache[OtherAccount][1].key = ChatA
           /\ OtherRemembered.cache[OtherAccount][1].order_id = OtherOrder
           /\ Len(R2.S.calls) = 1
           /\ R2.S.calls[1].order_id = o

(***************************************************************************)
(* C39.  No operation waits for ever.                                      *)
(***************************************************************************)
\* C39: the lock is held by a worker exactly while that worker is inside a
\* with block, a worker outside any operation holds nothing, a worker that
\* calls update_order_status while it holds the lock enters the block, and
\* every operation a worker has started returns, whatever the other worker
\* does and whatever the gateway answers.
C39_NoDeadlock ==
    /\ [](\A w \in Workers :
             /\ threads[w].pc = "idle" => threads[w].depth = 0
             /\ lock = w <=> threads[w].depth > 0)
    /\ \A w \in Workers :
           (threads[w].pc = "update" /\ lock = w) ~> (threads[w].pc = "update_locked")
    /\ \A w \in Workers : (threads[w].pc # "idle") ~> (threads[w].pc = "idle")

\* a worker is inside update_order_status called by on_order_id_extracted,
\* holding the lock twice, while the other worker waits for the lock
C39_Witness ==
    \E w, v \in Workers :
        /\ threads[w].pc = "update_locked"
        /\ threads[w].ret = "hook"
        /\ threads[w].depth = 2
        /\ threads[v].pc \in {"update", "drain", "hook", "add"}
        /\ lock = w

====
